---- MODULE Spec2Model ----
(***************************************************************************)
(* Model of qiime2/core/type/signature.py: the signature objects           *)
(* (PipelineSignature, MethodSignature, VisualizerSignature) built at      *)
(* plugin-registration time from a callable and its declared types, and    *)
(* the call-time operations on a built signature.                          *)
(*                                                                         *)
(* Python values are records with a `tag` field.  Ordered mappings (dict,  *)
(* OrderedDict) are sequences of <<key, value>> pairs in insertion order.  *)
(* Exceptions are strings "<Class>:<which raise>", "" meaning no raise.    *)
(***************************************************************************)
EXTENDS Integers, Sequences, FiniteSets, TLC

\* req, pc, exc, self: one registration and the signature it built;
\* op: the synchronous call made on it and its outcome;
\* calls, provenance: the concurrent executions of the action, each with the
\* provenance capture it was handed;
\* invocations: the HashableInvocation objects built
VARIABLES req, pc, exc, self, op, calls, provenance, invocations

vars == <<req, pc, exc, self, op, calls, provenance, invocations>>

(***************************************************************************)
(* Bounds of the model.                                                    *)
(***************************************************************************)
\* longest formal-parameter list of a registered callable
MaxFormals == 2
\* longest sequence handed to _list_to_dict / _dict_to_list
MaxLen == 3

(***************************************************************************)
(* Python scalars and sentinels.                                           *)
(***************************************************************************)
NOVALUE == [tag |-> "NOVALUE"]
None == [tag |-> "None"]
\* inspect.Parameter.empty
empty == [tag |-> "empty"]
\* a physical (view) type such as list, dict, int
ViewType(n) == [tag |-> "type", name |-> n]
\* a python tuple (only return annotations use it)
Tuple(items) == [tag |-> "tuple", items |-> items]

(***************************************************************************)
(* Ordered mappings.                                                       *)
(***************************************************************************)
Range(s) == {s[i] : i \in DOMAIN s}
Keys(d) == [i \in DOMAIN d |-> d[i][1]]
Values(d) == [i \in DOMAIN d |-> d[i][2]]
KeySet(d) == {d[i][1] : i \in DOMAIN d}
HasKey(d, k) == \E i \in DOMAIN d : d[i][1] = k
Get(d, k) == d[CHOOSE i \in DOMAIN d : d[i][1] = k][2]
\* d[k] = v : overwrite in place, or append a new key
Put(d, k, v) ==
    IF HasKey(d, k)
    THEN [i \in DOMAIN d |-> IF d[i][1] = k THEN <<k, v>> ELSE d[i]]
    ELSE Append(d, <<k, v>>)
\* d.pop(k) / d.pop(k, default): the mapping without k
Pop(d, k) == SelectSeq(d, LAMBDA e : e[1] # k)
GetOr(d, k, default) == IF HasKey(d, k) THEN Get(d, k) ELSE default
\* dict(list_of_pairs)
RECURSIVE DictOf(_)
DictOf(pairs) ==
    IF pairs = <<>> THEN <<>>
    ELSE LET n == Len(pairs)
         IN Put(DictOf(SubSeq(pairs, 1, n - 1)), pairs[n][1], pairs[n][2])

(***************************************************************************)
(* The type algebra (qiime2.core.type.grammar / meta / util): expressions  *)
(* and the capabilities the signature consumes from it.                    *)
(***************************************************************************)
\* a complete type expression without fields, e.g. IntSequence1, Int
BaseType(n, k) == [exp |-> "TypeExp", name |-> n, kind |-> k, fields |-> <<>>]
\* a complete parametrized expression, e.g. List[IntSequence1]
FieldType(n, k, f) == [exp |-> "TypeExp", name |-> n, kind |-> k, fields |-> <<f>>]
\* A | B
UnionExp(ms, k) == [exp |-> "UnionExp", name |-> "", kind |-> k, members |-> ms]
\* a type variable of a TypeMap / TypeMatch, with its polarity
TypeVarExp(id, ms, k, in, out) ==
    [exp |-> "TypeVarExp", name |-> "", kind |-> k, members |-> ms,
     id |-> id, input |-> in, output |-> out]
\* an unapplied type constructor, e.g. bare `List`
IncompleteExp(n, k) == [exp |-> "IncompleteExp", name |-> n, kind |-> k]

IntSequence1 == BaseType("IntSequence1", "semantic")
IntSequence2 == BaseType("IntSequence2", "semantic")
SingleInt == BaseType("SingleInt", "semantic")
QInt == BaseType("Int", "primitive")
QStr == BaseType("Str", "primitive")
Visualization == BaseType("Visualization", "visualization")
List(t) == FieldType("List", t.kind, t)
Collection(t) == FieldType("Collection", t.kind, t)
\* T = TypeMatch([IntSequence1, IntSequence2])
T == TypeVarExp("T", <<IntSequence1, IntSequence2>>, "semantic", TRUE, TRUE)
\* the two sides of a TypeMap: an input-only and an output-only variable
TIn == TypeVarExp("M", <<IntSequence1, IntSequence2>>, "semantic", TRUE, FALSE)
TOut == TypeVarExp("M", <<SingleInt, IntSequence2>>, "semantic", FALSE, TRUE)
\* P = TypeMatch([Int, Str])
P == TypeVarExp("P", <<QInt, QStr>>, "primitive", TRUE, TRUE)

is_semantic_type(t) == t.kind = "semantic"
is_primitive_type(t) == t.kind = "primitive"
is_collection_type(t) ==
    t.exp = "TypeExp" /\ t.name \in {"List", "Set", "Collection"}

\* meta.select_variables: the variables of an expression, in field order
RECURSIVE select_variables(_)
select_variables(t) ==
    IF t.exp = "TypeVarExp" THEN <<t>>
    ELSE IF t.exp = "TypeExp" /\ t.fields # <<>> THEN select_variables(t.fields[1])
    ELSE <<>>

\* a concrete type contains no free type variable
is_concrete(t) == t.exp \in {"TypeExp", "UnionExp"} /\ select_variables(t) = <<>>

(***************************************************************************)
(* ParameterSpec.                                                          *)
(***************************************************************************)
ParameterSpec(qiime_type, view_type, default, description) ==
    [qiime_type |-> qiime_type, view_type |-> view_type,
     default |-> default, description |-> description]
has_view_type(spec) == spec.view_type # NOVALUE
has_default(spec) == spec.default # NOVALUE
\* duplicate losing the view type
duplicate_DropsViewType(spec, t) ==
    ParameterSpec(t, NOVALUE, spec.default, spec.description)
\* duplicate dropping the override
duplicate_IgnoresOverride(spec, t) == spec

\* spec.duplicate(qiime_type=t)
duplicate(spec, t) ==
    ParameterSpec(t, spec.view_type, spec.default, spec.description)

(***************************************************************************)
(* Callables: inspect.signature(callable).parameters is a sequence of      *)
(* formals [name, kind, annotation, default]; ret is the return            *)
(* annotation, `empty` when 'return' is not in callable.__annotations__.   *)
(***************************************************************************)
Formal(n, k, a, d) == [name |-> n, kind |-> k, annotation |-> a, default |-> d]

\* the class attribute builtin_args
builtin_args(cls) ==
    CASE cls = "PipelineSignature" -> <<"ctx">>
      [] cls = "MethodSignature" -> <<>>
      [] cls = "VisualizerSignature" -> <<"output_dir">>

\* qiime2.core.util.tuplize
tuplize(x) == IF x.tag = "tuple" THEN x.items ELSE <<x>>

(***************************************************************************)
(* _parse_signature: the walk over the formals (the loop body, then the    *)
(* loop), the outputs, and the drained-maps checks.                        *)
(***************************************************************************)
\* ParseFormal with the parameter branch forgetting signature_order
ParseFormal_ParameterNotOrdered(cls, st, f) ==
    IF f.kind \in {"VAR_POSITIONAL", "VAR_KEYWORD"}
    THEN [st EXCEPT !.exc = "TypeError:variadic"]
    ELSE IF st.builtin_args # <<>>
    THEN IF st.builtin_args[1] # f.name
         THEN [st EXCEPT !.exc = "TypeError:missing_builtin"]
         ELSE [st EXCEPT !.builtin_args = Tail(@)]
    ELSE LET param_spec(t) ==
                 ParameterSpec(t,
                               IF f.annotation # empty THEN f.annotation ELSE NOVALUE,
                               IF f.default # empty THEN f.default ELSE NOVALUE,
                               NOVALUE)
         IN IF HasKey(st.inputs, f.name)
            THEN [st EXCEPT
                    !.input_descriptions = Pop(@, f.name),
                    !.inputs = Pop(@, f.name),
                    !.annotated_inputs =
                        Put(@, f.name, param_spec(Get(st.inputs, f.name))),
                    !.signature_order =
                        Put(@, f.name, param_spec(Get(st.inputs, f.name)))]
            ELSE IF HasKey(st.parameters, f.name)
            THEN [st EXCEPT
                    !.parameter_descriptions = Pop(@, f.name),
                    !.parameters = Pop(@, f.name),
                    !.annotated_parameters =
                        Put(@, f.name, param_spec(Get(st.parameters, f.name)))]
            ELSE IF f.name \notin Range(builtin_args(cls))
            THEN [st EXCEPT !.exc = "TypeError:no_qiime_type"]
            ELSE st

\* one iteration of the loop over the formals
ParseFormal(cls, st, f) ==
    IF f.kind \in {"VAR_POSITIONAL", "VAR_KEYWORD"}
    THEN [st EXCEPT !.exc = "TypeError:variadic"]
    ELSE IF st.builtin_args # <<>>
    THEN IF st.builtin_args[1] # f.name
         THEN [st EXCEPT !.exc = "TypeError:missing_builtin"]
         ELSE [st EXCEPT !.builtin_args = Tail(@)]
    ELSE LET view_type == IF f.annotation # empty THEN f.annotation ELSE NOVALUE
             default == IF f.default # empty THEN f.default ELSE NOVALUE
         IN IF HasKey(st.inputs, f.name)
            THEN LET param_spec ==
                         ParameterSpec(Get(st.inputs, f.name), view_type, default,
                                       GetOr(st.input_descriptions, f.name, NOVALUE))
                 IN [st EXCEPT
                       !.input_descriptions = Pop(@, f.name),
                       !.inputs = Pop(@, f.name),
                       !.annotated_inputs = Put(@, f.name, param_spec),
                       !.signature_order = Put(@, f.name, param_spec)]
            ELSE IF HasKey(st.parameters, f.name)
            THEN LET param_spec ==
                         ParameterSpec(Get(st.parameters, f.name), view_type, default,
                                       GetOr(st.parameter_descriptions, f.name, NOVALUE))
                 IN [st EXCEPT
                       !.parameter_descriptions = Pop(@, f.name),
                       !.parameters = Pop(@, f.name),
                       !.annotated_parameters = Put(@, f.name, param_spec),
                       !.signature_order = Put(@, f.name, param_spec)]
            ELSE IF f.name \notin Range(builtin_args(cls))
            THEN [st EXCEPT !.exc = "TypeError:no_qiime_type"]
            ELSE st

RECURSIVE ParseFormals(_, _, _)
ParseFormals(cls, st, formals) ==
    IF formals = <<>> \/ st.exc # "" THEN st
    ELSE ParseFormals(cls, ParseFormal(cls, st, Head(formals)), Tail(formals))

\* the annotated outputs: declared outputs zipped with the return annotation
AnnotateOutputs(outputs, output_views, output_descriptions) ==
    [i \in DOMAIN outputs |->
        <<outputs[i][1],
          ParameterSpec(outputs[i][2],
                        IF output_views = <<>> THEN NOVALUE ELSE output_views[i],
                        NOVALUE,
                        GetOr(output_descriptions, outputs[i][1], NOVALUE))>>]

RECURSIVE PopAll(_, _)
PopAll(d, ks) == IF ks = <<>> THEN d ELSE PopAll(Pop(d, Head(ks)), Tail(ks))

\* the walk over the formals from the copied maps
WalkFormals(cls, callable, inputs, parameters, input_descriptions, parameter_descriptions) ==
    ParseFormals(cls,
                 [inputs |-> inputs, parameters |-> parameters,
                  input_descriptions |-> input_descriptions,
                  parameter_descriptions |-> parameter_descriptions,
                  builtin_args |-> builtin_args(cls),
                  annotated_inputs |-> <<>>, annotated_parameters |-> <<>>,
                  signature_order |-> <<>>, exc |-> ""],
                 callable.parameters)

\* what _parse_signature hands back (or the exception it raises)
Parsed(e, st, outs) ==
    [exc |-> e, inputs |-> st.annotated_inputs,
     parameters |-> st.annotated_parameters, outputs |-> outs,
     signature_order |-> st.signature_order]

\* _parse_signature without the check that both declared maps were drained
_parse_signature_NoDrainCheck(cls, callable, inputs, parameters, outputs, input_descriptions, parameter_descriptions, output_descriptions) ==
    LET st == WalkFormals(cls, callable, inputs, parameters, input_descriptions,
                          parameter_descriptions)
        output_views == IF callable.ret # empty THEN tuplize(callable.ret) ELSE <<>>
    IN IF st.exc # "" THEN Parsed(st.exc, st, <<>>)
       ELSE IF callable.ret # empty /\ Len(output_views) # Len(outputs)
       THEN Parsed("TypeError:output_arity", st, <<>>)
       ELSE Parsed("", st, AnnotateOutputs(outputs, output_views, output_descriptions))

_parse_signature(cls, callable, inputs, parameters, outputs, input_descriptions, parameter_descriptions, output_descriptions) ==
    LET st == WalkFormals(cls, callable, inputs, parameters, input_descriptions,
                          parameter_descriptions)
        hasReturn == callable.ret # empty
        output_views == IF hasReturn THEN tuplize(callable.ret) ELSE <<>>
        left_descriptions == PopAll(output_descriptions, Keys(outputs))
    IN IF st.exc # "" THEN Parsed(st.exc, st, <<>>)
       ELSE IF st.inputs # <<>> \/ st.parameters # <<>>
       THEN Parsed("TypeError:callable_lacks_parameter", st, <<>>)
       ELSE IF hasReturn /\ Len(output_views) # Len(outputs)
       THEN Parsed("TypeError:output_arity", st, <<>>)
       ELSE IF st.input_descriptions # <<>> \/ st.parameter_descriptions # <<>>
               \/ left_descriptions # <<>>
       THEN Parsed("TypeError:descriptions", st, <<>>)
       ELSE Parsed("", st, AnnotateOutputs(outputs, output_views, output_descriptions))

(***************************************************************************)
(* Runtime values and the membership test `value in type`.                 *)
(***************************************************************************)
Artifact(t) == [tag |-> "Artifact", type |-> t]
VisualizationResult == [tag |-> "Visualization"]
Metadata == [tag |-> "Metadata"]
IntVal(n) == [tag |-> "int", int |-> n]
StrVal(x) == [tag |-> "str", str |-> x]
PyList(items) == [tag |-> "list", items |-> items]
PyDict(items) == [tag |-> "dict", items |-> items]
ResultCollection(items) == [tag |-> "ResultCollection", items |-> items]

\* value in type
RECURSIVE In(_, _)
In(v, t) ==
    CASE t.exp \in {"UnionExp", "TypeVarExp"} ->
            \E i \in DOMAIN t.members : In(v, t.members[i])
      [] t.exp = "TypeExp" /\ t.fields = <<>> ->
            \/ v.tag = "Artifact" /\ v.type = t
            \/ v.tag = "int" /\ t.name = "Int"
            \/ v.tag = "str" /\ t.name = "Str"
      [] t.exp = "TypeExp" /\ t.fields # <<>> /\ t.name = "List" ->
            /\ v.tag = "list"
            /\ v.items # <<>>
            /\ \A i \in DOMAIN v.items : In(v.items[i], t.fields[1])
      [] t.exp = "TypeExp" /\ t.fields # <<>> /\ t.name = "Collection" ->
            /\ v.tag \in {"dict", "ResultCollection"}
            /\ v.items # <<>>
            /\ \A i \in DOMAIN v.items : In(v.items[i][2], t.fields[1])
      [] OTHER -> FALSE

\* isinstance(t, classes); TypeVarExp is a subclass of UnionExp
IsInstance(t, classes) ==
    t.exp \in classes \/ (t.exp = "TypeVarExp" /\ "UnionExp" \in classes)

(***************************************************************************)
(* The _assert_valid_* checks of __init__: each gives the first exception  *)
(* raised while iterating the mapping in order, "" when none is.           *)
(***************************************************************************)
\* the first non-"" entry of a sequence of exceptions
RECURSIVE FirstExc(_)
FirstExc(es) ==
    IF es = <<>> THEN ""
    ELSE IF Head(es) # "" THEN Head(es) ELSE FirstExc(Tail(es))

_assert_valid_inputs(inputs) ==
    FirstExc([i \in DOMAIN inputs |->
        LET spec == inputs[i][2]
            vs == select_variables(spec.qiime_type)
        IN IF ~is_semantic_type(spec.qiime_type)
           THEN "TypeError:input_not_semantic"
           ELSE IF ~IsInstance(spec.qiime_type, {"TypeExp", "UnionExp"})
           THEN "TypeError:input_incomplete"
           ELSE IF has_default(spec) /\ spec.default # None
           THEN "ValueError:input_default"
           ELSE IF \E j \in DOMAIN vs : ~vs[j].input
           THEN "TypeError:input_output_variable"
           ELSE ""])

_assert_valid_parameters(parameters) ==
    FirstExc([i \in DOMAIN parameters |->
        LET spec == parameters[i][2]
            vs == select_variables(spec.qiime_type)
        IN IF ~is_primitive_type(spec.qiime_type)
           THEN "TypeError:parameter_not_primitive"
           ELSE IF ~IsInstance(spec.qiime_type, {"TypeExp", "UnionExp"})
           THEN "TypeError:parameter_incomplete"
           ELSE IF has_default(spec) /\ spec.default # None
                   /\ ~In(spec.default, spec.qiime_type)
           THEN "TypeError:parameter_default"
           ELSE IF \E j \in DOMAIN vs : ~vs[j].input
           THEN "TypeError:parameter_output_variable"
           ELSE ""])

\* PipelineSignature._assert_valid_outputs
Base_assert_valid_outputs(outputs) ==
    IF Len(outputs) = 0 THEN "TypeError:no_output"
    ELSE FirstExc([i \in DOMAIN outputs |->
        LET spec == outputs[i][2]
            vs == select_variables(spec.qiime_type)
        IN IF ~(is_semantic_type(spec.qiime_type) \/ spec.qiime_type = Visualization)
           THEN "TypeError:output_not_semantic"
           ELSE IF ~IsInstance(spec.qiime_type, {"TypeVarExp", "TypeExp"})
           THEN "TypeError:output_incomplete"
           ELSE IF \E j \in DOMAIN vs : ~vs[j].output
           THEN "TypeError:output_input_variable"
           ELSE ""])

\* the override of the class, after super()._assert_valid_outputs
_assert_valid_outputs(cls, outputs) ==
    LET base == Base_assert_valid_outputs(outputs)
    IN IF base # "" \/ cls = "PipelineSignature" THEN base
       ELSE IF cls = "MethodSignature"
       THEN FirstExc([i \in DOMAIN outputs |->
                IF ~is_semantic_type(outputs[i][2].qiime_type)
                THEN "TypeError:method_output_not_semantic" ELSE ""])
       ELSE LET output == Get(outputs, "visualization")
            IN IF has_view_type(output) /\ output.view_type # None
               THEN "TypeError:visualizer_returns" ELSE ""

\* _assert_valid_views of a Method looking at inputs and parameters only
_assert_valid_views_OutputsUnchecked(cls, inputs, parameters, outputs) ==
    LET chain == IF cls = "PipelineSignature" THEN inputs \o parameters \o outputs
                 ELSE inputs \o parameters
    IN FirstExc([i \in DOMAIN chain |->
          IF cls = "PipelineSignature"
          THEN IF has_view_type(chain[i][2])
               THEN "TypeError:pipeline_annotation" ELSE ""
          ELSE IF ~has_view_type(chain[i][2])
               THEN "TypeError:missing_annotation" ELSE ""])

_assert_valid_views(cls, inputs, parameters, outputs) ==
    LET chain == IF cls = "VisualizerSignature" THEN inputs \o parameters
                 ELSE inputs \o parameters \o outputs
    IN FirstExc([i \in DOMAIN chain |->
          IF cls = "PipelineSignature"
          THEN IF has_view_type(chain[i][2])
               THEN "TypeError:pipeline_annotation" ELSE ""
          ELSE IF ~has_view_type(chain[i][2])
               THEN "TypeError:missing_annotation" ELSE ""])

(***************************************************************************)
(* __init__ of the three signature classes.  A registration request is     *)
(* [cls, callable, inputs, parameters, outputs, input_descriptions,        *)
(* parameter_descriptions, output_descriptions]; outputs is a python list  *)
(* of pairs, a dict or a set.                                              *)
(***************************************************************************)
NoSig == [tag |-> "NoSig"]

Signature(cls, inputs, parameters, outputs, signature_order) ==
    [tag |-> "Signature", cls |-> cls, inputs |-> inputs,
     parameters |-> parameters, outputs |-> outputs,
     signature_order |-> signature_order]

\* the outcome of a construction: the exception raised, or the object built
__init__(r) ==
    LET visualizer == r.cls = "VisualizerSignature"
        failed(e) == [exc |-> e, self |-> NoSig]
    IN IF ~visualizer /\ r.outputs.tag = "set" THEN failed("ValueError:outputs_set")
       ELSE
       LET outputs == IF visualizer THEN <<<<"visualization", Visualization>>>>
                      ELSE IF r.outputs.tag = "list" THEN DictOf(r.outputs.items)
                      ELSE r.outputs.items
           output_descriptions == IF visualizer THEN <<>> ELSE r.output_descriptions
           parsed == _parse_signature(r.cls, r.callable, r.inputs, r.parameters,
                                      outputs, r.input_descriptions,
                                      r.parameter_descriptions, output_descriptions)
           e1 == _assert_valid_inputs(parsed.inputs)
           e2 == _assert_valid_parameters(parsed.parameters)
           e3 == _assert_valid_outputs(r.cls, parsed.outputs)
           e4 == _assert_valid_views(r.cls, parsed.inputs, parsed.parameters,
                                     parsed.outputs)
       IN IF parsed.exc # "" THEN failed(parsed.exc)
          ELSE IF e1 # "" THEN failed(e1)
          ELSE IF e2 # "" THEN failed(e2)
          ELSE IF e3 # "" THEN failed(e3)
          ELSE IF e4 # "" THEN failed(e4)
          ELSE [exc |-> "",
                self |-> Signature(r.cls, parsed.inputs, parsed.parameters,
                                   parsed.outputs, parsed.signature_order)]

(***************************************************************************)
(* The registrations explored.  RegistrationsByCallable varies the         *)
(* callable's formals (names, order, annotations, variadics) against the   *)
(* declared names; RegistrationsByType varies the declared types, the      *)
(* defaults, the outputs and the descriptions.                             *)
(***************************************************************************)
Classes == {"PipelineSignature", "MethodSignature", "VisualizerSignature"}
FormalNames == {"ctx", "output_dir", "a", "b"}
list == ViewType("list")

\* formal-parameter names: python forbids a repeated name
NameSeqs ==
    UNION {{ns \in [1..n -> FormalNames] :
              \A i, j \in 1..n : i # j => ns[i] # ns[j]} : n \in 0..MaxFormals}

\* f(x), f(x: list), f(*x)
FormalShapes ==
    {[kind |-> "POSITIONAL_OR_KEYWORD", annotation |-> empty],
     [kind |-> "POSITIONAL_OR_KEYWORD", annotation |-> list],
     [kind |-> "VAR_POSITIONAL", annotation |-> empty]}

Request(cls, callable, inputs, parameters, outputs, idesc, pdesc, odesc) ==
    [cls |-> cls, callable |-> callable, inputs |-> inputs,
     parameters |-> parameters, outputs |-> outputs,
     input_descriptions |-> idesc, parameter_descriptions |-> pdesc,
     output_descriptions |-> odesc]

CallablesByShape ==
    UNION {{[parameters |-> [i \in DOMAIN ns |->
                               Formal(ns[i], sh[i].kind, sh[i].annotation, empty)],
             ret |-> ret] :
               sh \in [DOMAIN ns -> FormalShapes], ret \in {empty, None, list}} :
           ns \in NameSeqs}

RegistrationsByCallable ==
    {Request(cls, callable, ins, ps, PyDict(<<<<"o", IntSequence1>>>>),
             <<>>, <<>>, <<>>) :
        cls \in Classes,
        callable \in CallablesByShape,
        ins \in {<<>>, <<<<"a", IntSequence1>>>>, <<<<"b", IntSequence1>>>>,
                 <<<<"a", IntSequence1>>, <<"b", IntSequence1>>>>},
        ps \in {<<>>, <<<<"a", QInt>>>>, <<<<"b", QInt>>>>}}

\* def f([builtin,] a, b[=default]) annotated as the class wants it
TypedCallable(cls, default, ret) ==
    LET ann == IF cls = "PipelineSignature" THEN empty ELSE list
    IN [parameters |->
            [i \in DOMAIN builtin_args(cls) |->
                Formal(builtin_args(cls)[i], "POSITIONAL_OR_KEYWORD", empty, empty)]
            \o <<Formal("a", "POSITIONAL_OR_KEYWORD", ann, empty),
                 Formal("b", "POSITIONAL_OR_KEYWORD", ann, default)>>,
        ret |-> ret]

InputTypes ==
    {IntSequence1, UnionExp(<<IntSequence1, IntSequence2>>, "semantic"), T,
     List(T), TOut, QInt, IncompleteExp("List", "semantic")}
ParameterTypes == {QInt, P, IntSequence1}

\* the declared outputs with the return annotation that fits them in number
OutputChoices ==
    {[outputs |-> PyDict(<<<<"o", t>>>>), ret |-> list] :
        t \in {IntSequence1, T, TOut, TIn, Visualization, Collection(T),
               UnionExp(<<IntSequence1, IntSequence2>>, "semantic")}}
    \cup {[outputs |-> PyList(<<<<"left", T>>, <<"right", T>>>>),
           ret |-> Tuple(<<list, list>>)],
          [outputs |-> PyList(<<<<"left", T>>, <<"right", T>>>>), ret |-> list],
          [outputs |-> PyList(<<<<"o", T>>, <<"o", IntSequence1>>>>), ret |-> list],
          [outputs |-> [tag |-> "set", items |-> <<<<"o", IntSequence1>>>>],
           ret |-> list],
          [outputs |-> PyDict(<<>>), ret |-> Tuple(<<>>)]}

DescriptionChoices ==
    {[i |-> <<>>, p |-> <<>>, o |-> <<>>],
     [i |-> <<<<"a", "an input">>>>, p |-> <<>>, o |-> <<<<"o", "an output">>>>],
     [i |-> <<>>, p |-> <<<<"b", "a parameter">>>>, o |-> <<>>],
     [i |-> <<>>, p |-> <<>>, o |-> <<<<"p", "no such output">>>>]}

RegistrationsByType ==
    {Request(cls,
             TypedCallable(cls, default,
                           IF cls = "MethodSignature" THEN oc.ret
                           ELSE IF cls = "VisualizerSignature" THEN None ELSE empty),
             <<<<"a", ta>>>> \o (IF b.input THEN <<<<"b", b.type>>>> ELSE <<>>),
             IF b.input THEN <<>> ELSE <<<<"b", b.type>>>>,
             oc.outputs, d.i, d.p, d.o) :
        cls \in Classes,
        default \in {empty, None, IntVal(1)},
        ta \in InputTypes,
        b \in {[input |-> TRUE, type |-> t] : t \in {T, IntSequence1}}
              \cup {[input |-> FALSE, type |-> t] : t \in ParameterTypes},
        oc \in OutputChoices,
        d \in DescriptionChoices}

Registrations == RegistrationsByCallable \cup RegistrationsByType

NoReq == [tag |-> "NoReq"]
NoCall == [tag |-> "NoCall"]

(***************************************************************************)
(* Registration: a plugin registers one action; its signature is built or  *)
(* the construction raises.                                                *)
(***************************************************************************)
InitRegister ==
    /\ req = NoReq
    /\ pc = "unregistered"
    /\ exc = ""
    /\ self = NoSig
    /\ op = NoCall
    /\ calls = <<>>
    /\ provenance = <<>>
    /\ invocations = <<>>

Register ==
    /\ pc = "unregistered"
    /\ \E r \in Registrations :
          LET built == __init__(r)
          IN /\ req' = r
             /\ exc' = built.exc
             /\ self' = built.self
             /\ pc' = IF built.exc = "" THEN "built" ELSE "failed"
    /\ UNCHANGED <<op, calls, provenance, invocations>>

NextRegister == Register

SpecRegister == InitRegister /\ [][NextRegister]_vars

(***************************************************************************)
(* Properties of registration.                                             *)
(***************************************************************************)
\* the callable's formals after the leading builtin arguments of the class
NonBuiltinFormals(r) ==
    SubSeq(r.callable.parameters, Len(builtin_args(r.cls)) + 1,
           Len(r.callable.parameters))
FormalNamesOf(fs) == [i \in DOMAIN fs |-> fs[i].name]
Registered == pc # "unregistered"

\* C1: in every built signature each name of signature_order is a key of
\* exactly one of inputs / parameters, every key of inputs and parameters is
\* in signature_order, and signature_order lists the names in the callable's
\* formal-parameter order, builtin arguments excluded.
C1_SignatureOrderPartition ==
    pc = "built" =>
        LET names == Keys(self.signature_order)
        IN /\ \A i \in DOMAIN names :
                 HasKey(self.inputs, names[i]) # HasKey(self.parameters, names[i])
           /\ KeySet(self.inputs) \cup KeySet(self.parameters) \subseteq Range(names)
           /\ names = FormalNamesOf(NonBuiltinFormals(req))

C1_Witness ==
    /\ pc = "built"
    /\ req.cls = "PipelineSignature"
    /\ Keys(self.inputs) = <<"a">>
    /\ Keys(self.parameters) = <<"b">>

\* C2: construction succeeds only if the declared input and parameter names
\* are exactly the formal parameter names after the builtin arguments;
\* otherwise it raises and no signature is produced.
C2_DeclaredNamesAreFormals ==
    (Registered /\ KeySet(req.inputs) \cup KeySet(req.parameters)
                      # Range(FormalNamesOf(NonBuiltinFormals(req))))
        => (pc = "failed" /\ exc # "" /\ self = NoSig)

C2_Witness ==
    /\ pc = "failed"
    /\ exc = "TypeError:callable_lacks_parameter"
    /\ FormalNamesOf(req.callable.parameters) = <<"a">>
    /\ KeySet(req.inputs) \cup KeySet(req.parameters) = {"a", "b"}

\* C3: for a class with a builtin argument, construction fails whenever the
\* formal at the builtin position is not the builtin name, and also when the
\* callable has no formal at that position.
C3_BuiltinRequired ==
    (/\ Registered
     /\ builtin_args(req.cls) # <<>>
     /\ \/ req.callable.parameters = <<>>
        \/ req.callable.parameters[1].name # builtin_args(req.cls)[1])
        => pc = "failed"

\* the callable's annotations break the view-type rule of the class
ViolatesViewRule(r) ==
    LET fs == NonBuiltinFormals(r)
    IN CASE r.cls = "MethodSignature" ->
               \/ \E i \in DOMAIN fs : fs[i].annotation = empty
               \/ r.callable.ret = empty
         [] r.cls = "PipelineSignature" ->
               \/ \E i \in DOMAIN fs : fs[i].annotation # empty
               \/ r.callable.ret # empty
         [] r.cls = "VisualizerSignature" ->
               \/ \E i \in DOMAIN fs : fs[i].annotation = empty
               \/ r.callable.ret \notin {empty, None, Tuple(<<None>>)}

\* C4: a built Method has a view type on every input, parameter and output;
\* a built Pipeline has none; a built Visualizer has one on every input and
\* parameter and its single 'visualization' output has a view type that is
\* absent or None.  A callable whose annotations break the rule is not built.
C4_ViewTypeRule ==
    /\ pc = "built" =>
          LET args == self.inputs \o self.parameters
              all == args \o self.outputs
          IN CASE self.cls = "MethodSignature" ->
                     \A i \in DOMAIN all : all[i][2].view_type # NOVALUE
               [] self.cls = "PipelineSignature" ->
                     \A i \in DOMAIN all : all[i][2].view_type = NOVALUE
               [] self.cls = "VisualizerSignature" ->
                     /\ \A i \in DOMAIN args : args[i][2].view_type # NOVALUE
                     /\ Keys(self.outputs) = <<"visualization">>
                     /\ self.outputs[1][2].view_type \in {NOVALUE, None}
    /\ (Registered /\ ViolatesViewRule(req)) => pc = "failed"

C4_Witness ==
    /\ pc = "built"
    /\ self.cls = "VisualizerSignature"
    /\ self.inputs # <<>>
    /\ self.parameters # <<>>
    /\ self.outputs[1][2].view_type = None

(***************************************************************************)
(* Call time: the operations on a built signature.                         *)
(***************************************************************************)
\* str(n) of a non-negative int
Digits == <<"0", "1", "2", "3", "4", "5", "6", "7", "8", "9">>
RECURSIVE str(_)
str(n) == IF n < 10 THEN Digits[n + 1] ELSE str(n \div 10) \o Digits[(n % 10) + 1]

\* _list_to_dict keyed from 1
_list_to_dict_OneBased(_input) ==
    PyDict([i \in DOMAIN _input.items |-> <<str(i), _input.items[i]>>])

\* {str(idx): v for idx, v in enumerate(_input)}
_list_to_dict(_input) ==
    PyDict(DictOf([i \in DOMAIN _input.items |-> <<str(i - 1), _input.items[i]>>]))

\* list(_input.values())
_dict_to_list(_input) == PyList(Values(_input.items))

\* check_types accepting every None
check_types_AnyNone(sig, kwargs) ==
    FirstExc([i \in DOMAIN sig.signature_order |->
        LET name == sig.signature_order[i][1]
            spec == sig.signature_order[i][2]
        IN IF ~HasKey(kwargs, name) THEN "KeyError:" \o name
           ELSE IF ~In(Get(kwargs, name), spec.qiime_type)
                   /\ Get(kwargs, name) # None
           THEN "TypeError:argument" ELSE ""])

\* check_types: the exception it raises, "" when it returns
check_types(sig, kwargs) ==
    FirstExc([i \in DOMAIN sig.signature_order |->
        LET name == sig.signature_order[i][1]
            spec == sig.signature_order[i][2]
        IN IF ~HasKey(kwargs, name) THEN "KeyError:" \o name
           ELSE LET parameter == Get(kwargs, name)
                IN IF ~In(parameter, spec.qiime_type)
                      /\ ~(has_default(spec) /\ spec.default = None
                           /\ parameter = None)
                   THEN IF parameter.tag = "Visualization"
                        THEN "TypeError:visualization_argument"
                        ELSE IF parameter.tag = "Artifact"
                        THEN "TypeError:artifact_type"
                        ELSE IF parameter.tag = "Metadata"
                        THEN "TypeError:metadata_argument"
                        ELSE "TypeError:primitive_argument"
                   ELSE ""])

(***************************************************************************)
(* Type inference of a runtime value and the solving of type variables.    *)
(***************************************************************************)
\* results of a computation that may raise
Ok(x) == [exc |-> "", ret |-> x]
Raise(e) == [exc |-> e, ret |-> None]
\* the first raising entry of a sequence of results, or Ok of all the values
Collect(rs) ==
    LET es == [i \in DOMAIN rs |-> rs[i].exc]
    IN IF FirstExc(es) # "" THEN Raise(FirstExc(es))
       ELSE Ok([i \in DOMAIN rs |-> rs[i].ret])

\* UnionExp(types).normalize(): members without repetition, in a canonical
\* order; a union of one member is that member
CanonicalOrder == <<IntSequence1, IntSequence2, SingleInt, QInt, QStr>>
NormalizedUnion(types) ==
    LET ms == SelectSeq(CanonicalOrder, LAMBDA t : t \in Range(types))
    IN IF Len(ms) = 1 THEN ms[1]
       ELSE UnionExp(ms, IF ms = <<>> THEN "semantic" ELSE ms[1].kind)

\* qiime2.core.type.primitive.infer_primitive_type
infer_primitive_type(value) ==
    CASE value.tag = "int" -> Ok(QInt)
      [] value.tag = "str" -> Ok(QStr)
      [] value.tag = "Metadata" -> Ok(BaseType("Metadata", "primitive"))
      [] OTHER -> Raise("ValueError:unknown_primitive")

RECURSIVE _infer_type(_, _, _)
_infer_type(sig, key, value) ==
    IF value = None
    THEN IF HasKey(sig.inputs, key) THEN Ok(Get(sig.inputs, key).qiime_type)
         ELSE IF HasKey(sig.parameters, key)
         THEN Ok(Get(sig.parameters, key).qiime_type)
         ELSE Raise("ValueError:not_consistent")
    ELSE IF value.tag = "list"
    THEN LET inner == Collect([i \in DOMAIN value.items |->
                                  _infer_type(sig, key, value.items[i])])
         IN IF inner.exc # "" THEN inner
            ELSE Ok(FieldType("List", "semantic", NormalizedUnion(inner.ret)))
    ELSE IF value.tag = "set"
    THEN LET inner == Collect([i \in DOMAIN value.items |->
                                  _infer_type(sig, key, value.items[i])])
         IN IF inner.exc # "" THEN inner
            ELSE Ok(FieldType("Set", "semantic", NormalizedUnion(inner.ret)))
    ELSE IF value.tag \in {"dict", "ResultCollection"}
    THEN LET inner == Collect([i \in DOMAIN value.items |->
                                  _infer_type(sig, key, value.items[i][2])])
         IN IF inner.exc # "" THEN inner
            ELSE Ok(FieldType("Collection", "semantic", NormalizedUnion(inner.ret)))
    ELSE IF value.tag \in {"Artifact", "ProxyArtifact"} THEN Ok(value.type)
    ELSE infer_primitive_type(value)

\* the part of a provided type at the place of the variable of a declared one
RECURSIVE Fragment(_, _)
Fragment(declared, provided) ==
    IF declared.exp = "TypeVarExp" THEN Ok(provided)
    ELSE IF provided.exp = "TypeExp" /\ provided.name = declared.name
            /\ provided.fields # <<>>
    THEN Fragment(declared.fields[1], provided.fields[1])
    ELSE Raise("ValueError:no_solution")

\* bind the variables over the declared inputs, in order; a variable met
\* again must select the same type
RECURSIVE BindVariables(_, _, _)
BindVariables(inputs, provided, bound) ==
    IF inputs = <<>> THEN Ok(bound)
    ELSE LET key == inputs[1][1]
             expr == inputs[1][2]
             var == select_variables(expr)
         IN IF var = <<>> THEN BindVariables(Tail(inputs), provided, bound)
            ELSE IF ~HasKey(provided, key) THEN Raise("KeyError:" \o key)
            ELSE LET frag == Fragment(expr, Get(provided, key))
                 IN IF frag.exc # "" THEN frag
                    ELSE IF ~HasKey(bound, var[1].id)
                    THEN BindVariables(Tail(inputs), provided,
                             Put(bound, var[1].id,
                                 [var |-> var[1], type |-> frag.ret]))
                    ELSE IF Get(bound, var[1].id).type # frag.ret
                    THEN Raise("ValueError:inconsistent_binding")
                    ELSE BindVariables(Tail(inputs), provided, bound)

\* the branch of its map each bound variable selects, 0 when none does
Branch(b) ==
    IF \E i \in DOMAIN b.var.members : b.var.members[i] = b.type
    THEN CHOOSE i \in DOMAIN b.var.members : b.var.members[i] = b.type
    ELSE 0

\* an expression with its solved variables replaced
RECURSIVE Substitute(_, _)
Substitute(t, bound) ==
    IF t.exp = "TypeVarExp"
    THEN IF HasKey(bound, t.id) THEN t.members[Branch(Get(bound, t.id))] ELSE t
    ELSE IF t.exp = "TypeExp" /\ t.fields # <<>>
    THEN [t EXCEPT !.fields = <<Substitute(t.fields[1], bound)>>]
    ELSE t

\* meta.match(provided, inputs, outputs): the solved output types
match(provided, inputs, outputs) ==
    LET bound == BindVariables(inputs, provided, <<>>)
    IN IF bound.exc # "" THEN bound
       ELSE IF \E i \in DOMAIN bound.ret : Branch(bound.ret[i][2]) = 0
       THEN Raise("ValueError:no_solution")
       ELSE Ok([i \in DOMAIN outputs |->
                  <<outputs[i][1], Substitute(outputs[i][2], bound.ret)>>])

\* the types of a mapping of specs
QiimeTypes(specs) == [i \in DOMAIN specs |-> <<specs[i][1], specs[i][2].qiime_type>>]

\* does some input, parameter or output spec hold a variable
HasVariables(sig) ==
    LET chain == sig.inputs \o sig.parameters \o sig.outputs
    IN \E i \in DOMAIN chain : select_variables(chain[i][2].qiime_type) # <<>>

\* the first output that is not concrete raises
ConcreteCheck(solved_outputs) ==
    IF \E i \in DOMAIN solved_outputs : ~is_concrete(solved_outputs[i][2].qiime_type)
    THEN Raise("TypeError:not_concrete")
    ELSE Ok(solved_outputs)

\* the slow path up to the solved outputs, matching against `declared`
SolveVariables(sig, kwargs, declared) ==
    LET input_types == Collect([i \in DOMAIN kwargs |->
                           LET r == _infer_type(sig, kwargs[i][1], kwargs[i][2])
                           IN IF r.exc # "" THEN r ELSE Ok(<<kwargs[i][1], r.ret>>)])
    IN IF input_types.exc # "" THEN input_types
       ELSE LET solved == match(input_types.ret, declared, QiimeTypes(sig.outputs))
            IN IF solved.exc # "" THEN solved
               ELSE Ok([i \in DOMAIN sig.outputs |->
                          <<sig.outputs[i][1],
                            duplicate(sig.outputs[i][2],
                                      Get(solved.ret, sig.outputs[i][1]))>>])

\* the declared types handed to match: inputs, then parameters
DeclaredTypes(sig) == QiimeTypes(sig.inputs) \o QiimeTypes(sig.parameters)

\* solve_output returning without the concreteness check
solve_output_Unchecked(sig, kwargs) ==
    IF ~HasVariables(sig) THEN Ok(sig.outputs)
    ELSE SolveVariables(sig, kwargs, DeclaredTypes(sig))

\* solve_output matching against the first declared input only
solve_output_FirstDeclared(sig, kwargs) ==
    IF ~HasVariables(sig) THEN ConcreteCheck(sig.outputs)
    ELSE LET solved == SolveVariables(sig, kwargs, SubSeq(DeclaredTypes(sig), 1, 1))
         IN IF solved.exc # "" THEN solved ELSE ConcreteCheck(solved.ret)

\* solve_output without the fast path
solve_output_AlwaysSolve(sig, kwargs) ==
    LET solved == SolveVariables(sig, kwargs, DeclaredTypes(sig))
    IN IF solved.exc # "" THEN solved ELSE ConcreteCheck(solved.ret)

\* solve_output: the exception it raises, or the outputs it returns
solve_output(sig, kwargs) ==
    IF ~HasVariables(sig) THEN ConcreteCheck(sig.outputs)
    ELSE LET solved == SolveVariables(sig, kwargs, DeclaredTypes(sig))
         IN IF solved.exc # "" THEN solved ELSE ConcreteCheck(solved.ret)

(***************************************************************************)
(* The calls explored on a built signature.  The operations are            *)
(* synchronous: op holds the one call made and its outcome until the       *)
(* caller takes it (Return).                                               *)
(***************************************************************************)
\* the registrations a call-time behaviour starts from: built Methods and
\* Pipelines of RegistrationsByType
CallRegistrations ==
    {r \in RegistrationsByType :
        /\ r.cls # "VisualizerSignature"
        /\ r.input_descriptions = <<>> /\ r.parameter_descriptions = <<>>
        /\ r.output_descriptions = <<>>
        /\ __init__(r).exc = ""}

A1 == Artifact(IntSequence1)
A2 == Artifact(IntSequence2)
CallValues ==
    {None, A1, A2, IntVal(1), StrVal("x"), PyList(<<A1>>), PyList(<<A1, A2>>),
     VisualizationResult, Metadata}
Missing == [tag |-> "missing"]

\* keyword arguments over the names of the signature, each given or missing,
\* possibly with a name the signature does not have
KwargsOf(sig) ==
    LET names == Keys(sig.signature_order)
    IN {SelectSeq([i \in DOMAIN names |-> <<names[i], f[names[i]]>>] \o extra,
                  LAMBDA e : e[2] # Missing) :
          f \in [Range(names) -> CallValues \cup {Missing}],
          extra \in {<<>>, <<<<"z", None>>>>}}

Elements == {A1, A2}
\* python lists of at most MaxLen elements
Lists == UNION {{PyList(items) : items \in [1..n -> Elements]} : n \in 0..MaxLen}
\* dicts and result collections of at most MaxLen entries
DictKeys == {"0", "1", "2", "x"}
Dicts ==
    UNION {{[tag |-> tg, items |-> [i \in 1..n |-> <<ks[i], A1>>]] :
               tg \in {"dict", "ResultCollection"},
               ks \in {k \in [1..n -> DictKeys] :
                          \A i, j \in 1..n : i # j => k[i] # k[j]}} :
           n \in 0..MaxLen}

Call(name, args, result) ==
    [tag |-> "Call", name |-> name, args |-> args, exc |-> result.exc,
     ret |-> result.ret]

InitCall ==
    /\ req \in CallRegistrations
    /\ pc = "built"
    /\ exc = ""
    /\ self = __init__(req).self
    /\ op = NoCall
    /\ calls = <<>>
    /\ provenance = <<>>
    /\ invocations = <<>>

CheckTypes ==
    /\ pc = "built"
    /\ op = NoCall
    /\ \E kwargs \in KwargsOf(self) :
          op' = Call("check_types", kwargs, [exc |-> check_types(self, kwargs),
                                             ret |-> None])
    /\ UNCHANGED <<req, pc, exc, self, calls, provenance, invocations>>

SolveOutput ==
    /\ pc = "built"
    /\ op = NoCall
    /\ \E kwargs \in KwargsOf(self) :
          op' = Call("solve_output", kwargs, solve_output(self, kwargs))
    /\ UNCHANGED <<req, pc, exc, self, calls, provenance, invocations>>

ListToDict ==
    /\ pc = "built"
    /\ op = NoCall
    /\ \E l \in Lists : op' = Call("_list_to_dict", l, Ok(_list_to_dict(l)))
    /\ UNCHANGED <<req, pc, exc, self, calls, provenance, invocations>>

DictToList ==
    /\ pc = "built"
    /\ op = NoCall
    /\ \E d \in Dicts : op' = Call("_dict_to_list", d, Ok(_dict_to_list(d)))
    /\ UNCHANGED <<req, pc, exc, self, calls, provenance, invocations>>

\* the caller takes the outcome of the call; the signature is free again
Return ==
    /\ op # NoCall
    /\ op' = NoCall
    /\ UNCHANGED <<req, pc, exc, self, calls, provenance, invocations>>

NextCall == CheckTypes \/ SolveOutput \/ ListToDict \/ DictToList \/ Return

SpecCall == InitCall /\ [][NextCall]_vars

(***************************************************************************)
(* Properties of the call-time operations.                                 *)
(***************************************************************************)
\* the call made is one of operation n
Called(n) == op # NoCall /\ op.name = n
\* every name of signature_order has an actual value in the call made
AllGiven == \A i \in DOMAIN self.signature_order :
                HasKey(op.args, self.signature_order[i][1])

\* C5: check_types raises if and only if some name of signature_order has a
\* value that is not a member of its declared type, a None for a spec whose
\* default is None being accepted.
C5_CheckTypesRaisesIff ==
    (Called("check_types") /\ AllGiven) =>
        (op.exc # "" <=>
            \E i \in DOMAIN self.signature_order :
                LET v == Get(op.args, self.signature_order[i][1])
                    spec == self.signature_order[i][2]
                IN ~In(v, spec.qiime_type) /\ ~(v = None /\ spec.default = None))

C5_Witness ==
    /\ Called("check_types")
    /\ op.exc = ""
    /\ Get(self.signature_order, "b").default = None
    /\ HasKey(op.args, "a") /\ Get(op.args, "a") = A2
    /\ HasKey(op.args, "b") /\ Get(op.args, "b") = None

\* C6: when no input, parameter or output spec holds a type variable,
\* solve_output returns the declared outputs themselves, whatever the
\* arguments.
C6_FastPathReturnsDeclared ==
    (Called("solve_output") /\ ~HasVariables(self)) =>
        (op.exc = "" /\ op.ret = self.outputs)

C6_Witness ==
    /\ Called("solve_output")
    /\ ~HasVariables(self)
    /\ HasKey(op.args, "a") /\ Get(op.args, "a") = VisualizationResult
    /\ HasKey(op.args, "z")
    /\ op.ret = self.outputs

\* the concrete types a valid argument carries: its own, or its elements'
SubtypesOf(v) ==
    IF v.tag = "list" THEN {v.items[i].type : i \in DOMAIN v.items} ELSE {v.type}
\* input i of the signature holds variable var and is given a member of its type
GivenFor(i, var) ==
    /\ select_variables(self.inputs[i][2].qiime_type) = <<var>>
    /\ HasKey(op.args, self.inputs[i][1])
    /\ In(Get(op.args, self.inputs[i][1]), self.inputs[i][2].qiime_type)

\* C7: when one type variable is shared by two inputs and the call gives
\* them different concrete subtypes, solve_output fails; it returns nothing.
C7_SharedVariableMismatchFails ==
    (/\ Called("solve_output")
     /\ \E i, j \in DOMAIN self.inputs : \E var \in {T} :
           /\ i # j
           /\ GivenFor(i, var) /\ GivenFor(j, var)
           /\ SubtypesOf(Get(op.args, self.inputs[i][1]))
                 # SubtypesOf(Get(op.args, self.inputs[j][1])))
        => op.exc # ""

C7_Witness ==
    /\ Called("solve_output")
    /\ Get(self.inputs, "a").qiime_type = T
    /\ HasKey(self.inputs, "b") /\ Get(self.inputs, "b").qiime_type = T
    /\ HasKey(op.args, "a") /\ Get(op.args, "a") = A1
    /\ HasKey(op.args, "b") /\ Get(op.args, "b") = A2
    /\ op.exc = "ValueError:inconsistent_binding"

\* C8: when every output is declared as the variable T that an input is
\* bound to, a valid call whose inputs in T are all of concrete subtype X
\* returns every output typed exactly X.
C8_OutputsTakeInputSubtype ==
    \A X \in {IntSequence1, IntSequence2} :
        (/\ Called("solve_output")
         /\ AllGiven
         /\ check_types(self, op.args) = ""
         /\ \A i \in DOMAIN op.args : op.args[i][2] # None
         /\ \A i \in DOMAIN self.outputs : self.outputs[i][2].qiime_type = T
         /\ \E i \in DOMAIN self.inputs : GivenFor(i, T)
         /\ \A i \in DOMAIN self.inputs :
               select_variables(self.inputs[i][2].qiime_type) = <<T>>
                   => SubtypesOf(Get(op.args, self.inputs[i][1])) = {X})
            => /\ op.exc = ""
               /\ Keys(op.ret) = Keys(self.outputs)
               /\ \A i \in DOMAIN op.ret : op.ret[i][2].qiime_type = X

C8_Witness ==
    /\ Called("solve_output")
    /\ Keys(self.inputs) = <<"a">> /\ self.inputs[1][2].qiime_type = T
    /\ Keys(self.outputs) = <<"left", "right">>
    /\ self.outputs[1][2].qiime_type = T /\ self.outputs[2][2].qiime_type = T
    /\ HasKey(op.args, "a") /\ Get(op.args, "a") = A2
    /\ op.exc = ""
    /\ op.ret[1][2].qiime_type = IntSequence2
    /\ op.ret[2][2].qiime_type = IntSequence2

\* C9: whenever solve_output returns, on either path, no returned output
\* type holds a type variable.
C9_ReturnedOutputsConcrete ==
    (Called("solve_output") /\ op.exc = "") =>
        \A i \in DOMAIN op.ret :
            /\ op.ret[i][2].qiime_type.exp # "TypeVarExp"
            /\ select_variables(op.ret[i][2].qiime_type) = <<>>

C9_Witness ==
    /\ Called("solve_output")
    /\ op.exc = ""
    /\ self.outputs[1][2].qiime_type = Collection(T)
    /\ op.ret[1][2].qiime_type = Collection(IntSequence1)

\* C10: _list_to_dict of a sequence of N elements has exactly the keys
\* "0" .. "N-1" in ascending order, and _dict_to_list of it is the original
\* sequence.
C10_ListDictRoundTrip ==
    Called("_list_to_dict") =>
        /\ op.ret.tag = "dict"
        /\ Keys(op.ret.items) = SubSeq(Digits, 1, Len(op.args.items))
        /\ _dict_to_list(op.ret) = op.args

C10_Witness ==
    /\ Called("_list_to_dict")
    /\ op.args.items = <<A1, A2, A1>>
    /\ op.ret.items = <<<<"0", A1>>, <<"1", A2>>, <<"2", A1>>>>

(***************************************************************************)
(* coerce_user_input: the container shape of each given value is brought   *)
(* to the one its spec declares.                                           *)
(***************************************************************************)
dict == ViewType("dict")

\* the type whose name decides the collection kind: the spec's own, or for
\* an outer union (name '') the first member next(iter(...)) gives
_get_qiime_type_and_name(spec) ==
    IF spec.qiime_type.name = ""
    THEN [qiime_type |-> spec.qiime_type.members[1],
          qiime_name |-> spec.qiime_type.members[1].name]
    ELSE [qiime_type |-> spec.qiime_type, qiime_name |-> spec.qiime_type.name]

\* _coerce_given_input without the final wrapping of a dict
_coerce_given_input_NoWrap(_input, spec) ==
    LET qiime_name == _get_qiime_type_and_name(spec).qiime_name
    IN IF qiime_name = "Collection" /\ _input.tag = "list"
       THEN _list_to_dict(_input)
       ELSE IF qiime_name = "List" /\ _input.tag \in {"dict", "ResultCollection"}
       THEN _dict_to_list(_input)
       ELSE _input

_coerce_given_input(_input, spec) ==
    LET qiime_name == _get_qiime_type_and_name(spec).qiime_name
        shaped == IF qiime_name = "Collection" /\ _input.tag = "list"
                  THEN _list_to_dict(_input)
                  ELSE IF qiime_name = "List"
                          /\ _input.tag \in {"dict", "ResultCollection"}
                  THEN _dict_to_list(_input)
                  ELSE _input
    IN IF shaped.tag = "dict" THEN ResultCollection(shaped.items) ELSE shaped

\* _coerce_given_parameter turning a dict into a list for a dict view type
_coerce_given_parameter_Flipping(param, spec) ==
    IF spec.view_type = dict /\ param.tag = "list" THEN _list_to_dict(param)
    ELSE IF spec.view_type \in {list, dict} /\ param.tag = "dict"
    THEN _dict_to_list(param)
    ELSE param

_coerce_given_parameter(param, spec) ==
    IF spec.view_type = dict /\ param.tag = "list" THEN _list_to_dict(param)
    ELSE IF spec.view_type = list /\ param.tag = "dict" THEN _dict_to_list(param)
    ELSE param

\* coerce_user_input looping over the names the user gave
coerce_user_input_GivenOrder(sig, user_input) ==
    LET given == SelectSeq(user_input, LAMBDA e : HasKey(sig.signature_order, e[1]))
    IN [i \in DOMAIN given |->
          LET name == given[i][1]
              spec == Get(sig.signature_order, name)
              arg == given[i][2]
          IN <<name, IF HasKey(sig.inputs, name)
                     THEN _coerce_given_input(arg, spec)
                     ELSE _coerce_given_parameter(arg, spec)>>]

\* coerce_user_input: callable_args, in signature order, of the names given
coerce_user_input(sig, user_input) ==
    LET given == SelectSeq(sig.signature_order, LAMBDA e : HasKey(user_input, e[1]))
    IN [i \in DOMAIN given |->
          LET name == given[i][1]
              spec == given[i][2]
              arg == Get(user_input, name)
          IN <<name, IF HasKey(sig.inputs, name)
                     THEN _coerce_given_input(arg, spec)
                     ELSE _coerce_given_parameter(arg, spec)>>]

\* def f([ctx,] a: va, b: vb) -> list, unannotated for a Pipeline
ShapedCallable(cls, va, vb) ==
    [parameters |->
         [i \in DOMAIN builtin_args(cls) |->
             Formal(builtin_args(cls)[i], "POSITIONAL_OR_KEYWORD", empty, empty)]
         \o <<Formal("a", "POSITIONAL_OR_KEYWORD", va, empty),
              Formal("b", "POSITIONAL_OR_KEYWORD", vb, empty)>>,
     ret |-> IF cls = "PipelineSignature" THEN empty ELSE list]

\* declared input types of each collection kind, plain and as outer unions
ShapedInputTypes ==
    {IntSequence1, List(IntSequence1), Collection(IntSequence1),
     UnionExp(<<List(IntSequence1), List(IntSequence2)>>, "semantic"),
     UnionExp(<<Collection(IntSequence1), Collection(IntSequence2)>>, "semantic")}

\* the registrations a coercion starts from: input a, parameter b
CoerceRegistrations ==
    {r \in {Request(cls, ShapedCallable(cls, v.a, v.b), <<<<"a", ta>>>>,
                    <<<<"b", List(QInt)>>>>, PyDict(<<<<"o", IntSequence1>>>>),
                    <<>>, <<>>, <<>>) :
               cls \in {"MethodSignature", "PipelineSignature"},
               v \in [a : {empty, list, dict}, b : {empty, list, dict}],
               ta \in ShapedInputTypes} :
        __init__(r).exc = ""}

\* the user's keyword arguments: a, b and a name z that no signature
\* declares, each given or not, with a before b or after it
UserInputs ==
    {SelectSeq(IF ab THEN <<<<"a", a>>, <<"b", b>>, <<"z", z>>>>
               ELSE <<<<"z", z>>, <<"b", b>>, <<"a", a>>>>,
               LAMBDA e : e[2] # Missing) :
        a \in Lists \cup Dicts \cup {None, A1, Missing},
        b \in {Missing, IntVal(1), PyList(<<IntVal(1), IntVal(2)>>),
               PyDict(<<<<"k", IntVal(1)>>>>)},
        z \in {Missing, None},
        ab \in BOOLEAN}

InitCoerce ==
    /\ req \in CoerceRegistrations
    /\ pc = "built"
    /\ exc = ""
    /\ self = __init__(req).self
    /\ op = NoCall
    /\ calls = <<>>
    /\ provenance = <<>>
    /\ invocations = <<>>

CoerceUserInput ==
    /\ pc = "built"
    /\ op = NoCall
    /\ \E user_input \in UserInputs :
          op' = Call("coerce_user_input", user_input,
                     Ok(coerce_user_input(self, user_input)))
    /\ UNCHANGED <<req, pc, exc, self, calls, provenance, invocations>>

NextCoerce == CoerceUserInput \/ Return

SpecCoerce == InitCoerce /\ [][NextCoerce]_vars

\* the collection kind a spec declares: its type's name, or for a top-level
\* union the name of the union's first member
DeclaredKind(spec) ==
    IF spec.qiime_type.exp = "UnionExp" THEN spec.qiime_type.members[1].name
    ELSE spec.qiime_type.name

add_input(prov, name, value) ==
    Append(prov, [record |-> "input", name |-> name, value |-> value])
add_parameter(prov, name, type, value) ==
    Append(prov, [record |-> "parameter", name |-> name, type |-> type,
                  value |-> value])
\* the event a transformation recorder of input `name` writes
Transformation(name, artifact, view_type) ==
    [record |-> "transformation", name |-> name, from |-> artifact,
     to |-> view_type]
\* the view of an artifact
View(view_type, artifact) == [tag |-> "view", type |-> view_type, of |-> artifact]
\* an artifact whose data no transformer can read
BrokenArtifact(t) == [tag |-> "Artifact", type |-> t, broken |-> TRUE]

\* value._view(view_type, recorder): [exc, ret, events the recorder received]
_view(value, view_type, name, early) ==
    IF value.tag # "Artifact"
    THEN [exc |-> "AttributeError:_view", ret |-> None, events |-> <<>>]
    ELSE IF "broken" \in DOMAIN value
    THEN [exc |-> "Exception:transformation", ret |-> None,
          events |-> IF early THEN <<Transformation(name, value, view_type)>>
                     ELSE <<>>]
    ELSE [exc |-> "", ret |-> View(view_type, value),
          events |-> <<Transformation(name, value, view_type)>>]

\* the comprehension over the members: it stops at the first _view that
\* raises, the events of the members before it already recorded
RECURSIVE ViewEach(_, _, _, _)
ViewEach(items, view_type, name, early) ==
    IF items = <<>> THEN [exc |-> "", ret |-> <<>>, events |-> <<>>]
    ELSE LET head == _view(Head(items), view_type, name, early)
         IN IF head.exc # "" THEN head
            ELSE LET rest == ViewEach(Tail(items), view_type, name, early)
                 IN [exc |-> rest.exc,
                     ret |-> IF rest.exc = "" THEN <<head.ret>> \o rest.ret
                             ELSE None,
                     events |-> head.events \o rest.events]

\* _transform_and_add_input_to_prov: [exc, ret, provenance afterwards]
_transform_and_add_input_to_prov(prov, name, spec, _input, early) ==
    LET recorded == add_input(prov, name, _input)
        qiime_type == _get_qiime_type_and_name(spec).qiime_type
        done(r, value) ==
            [exc |-> r.exc, ret |-> IF r.exc # "" THEN None ELSE value,
             provenance |-> recorded \o r.events]
    IN IF _input = None
       THEN [exc |-> "", ret |-> None, provenance |-> recorded]
       ELSE IF has_view_type(spec)
       THEN IF is_collection_type(qiime_type)
            THEN IF _input.tag = "ResultCollection"
                 THEN LET r == ViewEach(Values(_input.items), spec.view_type,
                                        name, early)
                      IN done(r, ResultCollection(
                                     [i \in DOMAIN _input.items |->
                                         <<_input.items[i][1], r.ret[i]>>]))
                 ELSE IF _input.tag = "list"
                 THEN LET r == ViewEach(_input.items, spec.view_type, name, early)
                      IN done(r, PyList(r.ret))
                 ELSE IF _input.tag = "dict"
                 \* iterating a dict gives its keys, and a str has no _view
                 THEN IF _input.items = <<>>
                      THEN [exc |-> "", ret |-> PyList(<<>>),
                            provenance |-> recorded]
                      ELSE [exc |-> "AttributeError:_view", ret |-> None,
                            provenance |-> recorded]
                 ELSE [exc |-> "TypeError:not_iterable", ret |-> None,
                       provenance |-> recorded]
            ELSE LET r == _view(_input, spec.view_type, name, early)
                 IN done(r, r.ret)
       ELSE [exc |-> "", ret |-> _input, provenance |-> recorded]

\* the loop body leaving the parameters out of the provenance
TransformEntry_ParameterUnrecorded(sig, prov, callable_args, i, early) ==
    LET name == sig.signature_order[i][1]
        spec == sig.signature_order[i][2]
        r == _transform_and_add_input_to_prov(prov, name, spec,
                                              Get(callable_args, name), early)
    IN IF ~HasKey(callable_args, name)
       THEN [exc |-> "KeyError:" \o name, callable_args |-> callable_args,
             provenance |-> prov]
       ELSE IF HasKey(sig.inputs, name)
       THEN [exc |-> r.exc,
             callable_args |-> IF r.exc # "" THEN callable_args
                               ELSE Put(callable_args, name, r.ret),
             provenance |-> r.provenance]
       ELSE [exc |-> "", callable_args |-> callable_args, provenance |-> prov]

\* one iteration of the loop of transform_and_add_callable_args_to_prov over
\* entry i of signature_order: [exc, callable_args, provenance] afterwards
TransformEntry(sig, prov, callable_args, i, early) ==
    LET name == sig.signature_order[i][1]
        spec == sig.signature_order[i][2]
    IN IF ~HasKey(callable_args, name)
       THEN [exc |-> "KeyError:" \o name, callable_args |-> callable_args,
             provenance |-> prov]
       ELSE LET arg == Get(callable_args, name)
            IN IF HasKey(sig.inputs, name)
               THEN LET r == _transform_and_add_input_to_prov(prov, name, spec,
                                                               arg, early)
                    IN [exc |-> r.exc,
                        callable_args |-> IF r.exc # "" THEN callable_args
                                          ELSE Put(callable_args, name, r.ret),
                        provenance |-> r.provenance]
               ELSE [exc |-> "", callable_args |-> callable_args,
                     provenance |-> add_parameter(prov, name, spec.qiime_type, arg)]

(***************************************************************************)
(* Output materialization.  The views a callable produces are python       *)
(* values; the keys of a dict it produces are python values too (StrVal,   *)
(* IntVal), those of a ResultCollection are str.  The scope is the         *)
(* sequence of the calls made on it and on the artifact constructor.       *)
(***************************************************************************)
BoolVal(b) == [tag |-> "bool", bool |-> b]
int == ViewType("int")
\* type(view)
TypeOf(view) == ViewType(view.tag)
\* str(key) of a key of a produced dict
KeyStr(key) == IF key.tag = "int" THEN str(key.int) ELSE key.str
\* qiime2.core.util.create_collection_name
create_collection_name(name, key, idx, size) ==
    name \o ":" \o key \o ":" \o str(idx) \o ":" \o str(size)
\* provenance.fork(name)
fork(prov, name) == [fork |-> name, of |-> prov]
\* qiime2.sdk.Artifact._from_view(type, view, view_type, provenance_capture)
_from_view(type, view, view_type, prov) ==
    [tag |-> "Artifact", type |-> type, view |-> view, view_type |-> view_type,
     provenance |-> prov]

\* _create_output_artifact registering the fork after the construction
_create_output_artifact_RegisteredLate(provenance_, name, scope, spec, view) ==
    LET prov == fork(provenance_, name)
        qiime_type == IF is_collection_type(spec.qiime_type)
                      THEN spec.qiime_type.fields[1] ELSE spec.qiime_type
        artifact == _from_view(qiime_type, view, spec.view_type, prov)
    IN [artifact |-> artifact,
        scope |-> scope \o <<[event |-> "_from_view", ref |-> artifact],
                             [event |-> "add_reference", ref |-> prov],
                             [event |-> "add_parent_reference", ref |-> artifact]>>]

\* _create_output_artifact: the artifact and the scope afterwards
_create_output_artifact(provenance_, name, scope, spec, view) ==
    LET prov == fork(provenance_, name)
        qiime_type == IF is_collection_type(spec.qiime_type)
                      THEN spec.qiime_type.fields[1] ELSE spec.qiime_type
        artifact == _from_view(qiime_type, view, spec.view_type, prov)
    IN [artifact |-> artifact,
        scope |-> scope \o <<[event |-> "add_reference", ref |-> prov],
                             [event |-> "_from_view", ref |-> artifact],
                             [event |-> "add_parent_reference", ref |-> artifact]>>]

\* the loop over the members of a Collection output from index idx (0-based)
\* on: [output, scope] afterwards
RECURSIVE CreateMembers(_, _, _, _, _, _, _, _)
CreateMembers(provenance_, name, scope, spec, keys, values, idx, output) ==
    IF idx >= Len(values) THEN [output |-> output, scope |-> scope]
    ELSE LET key == IF keys # None THEN keys.items[idx + 1] ELSE str(idx)
             collection_name == create_collection_name(name, key, idx, Len(values))
             made == _create_output_artifact(provenance_, collection_name, scope,
                                             spec, values[idx + 1])
         IN CreateMembers(provenance_, name, made.scope, spec, keys, values,
                          idx + 1, Put(output, key, made.artifact))

\* one iteration of the loop of coerce_given_outputs accepting a view of any
\* type for an output that is not a Collection
CoerceOutput_TypeUnchecked(provenance_, name, scope, spec, output_view) ==
    LET made == _create_output_artifact(provenance_, name, scope, spec, output_view)
    IN [exc |-> "", output |-> made.artifact, scope |-> made.scope]

\* one iteration of the loop of coerce_given_outputs numbering the members
\* of an unkeyed view from 1
CoerceOutput_OneBased(provenance_, name, scope, spec, output_view) ==
    LET made == _create_output_artifact(provenance_, name, scope, spec, output_view)
        members == CreateMembers(provenance_, name, scope, spec,
                                 PyList([i \in DOMAIN output_view.items |-> str(i)]),
                                 output_view.items, 0, <<>>)
    IN IF spec.qiime_type.name = "Collection" /\ output_view.tag = "list"
       THEN [exc |-> "", output |-> ResultCollection(members.output),
             scope |-> members.scope]
       ELSE IF TypeOf(output_view) # spec.view_type
       THEN [exc |-> "TypeError:output_view_type", output |-> None, scope |-> scope]
       ELSE [exc |-> "", output |-> made.artifact, scope |-> made.scope]

\* one iteration of the loop of coerce_given_outputs: [exc, output, scope]
CoerceOutput(provenance_, name, scope, spec, output_view) ==
    IF spec.qiime_type.name = "Collection"
    THEN IF output_view.tag \notin {"list", "dict", "ResultCollection"}
         THEN [exc |-> "TypeError:len", output |-> None, scope |-> scope]
         ELSE LET keys ==
                      IF output_view.tag = "ResultCollection"
                      THEN PyList(Keys(output_view.items))
                      ELSE IF output_view.tag = "dict"
                      THEN PyList([i \in DOMAIN output_view.items |->
                                      KeyStr(output_view.items[i][1])])
                      ELSE None
                  values == IF output_view.tag = "list" THEN output_view.items
                            ELSE Values(output_view.items)
                  members == CreateMembers(provenance_, name, scope, spec, keys,
                                           values, 0, <<>>)
              IN [exc |-> "", output |-> ResultCollection(members.output),
                  scope |-> members.scope]
    ELSE IF TypeOf(output_view) # spec.view_type
    THEN [exc |-> "TypeError:output_view_type", output |-> None, scope |-> scope]
    ELSE LET made == _create_output_artifact(provenance_, name, scope, spec,
                                             output_view)
         IN [exc |-> "", output |-> made.artifact, scope |-> made.scope]

\* the loop over zip(output_views, output_types.items()) from pair i on
RECURSIVE CoerceOutputs(_, _, _, _, _, _)
CoerceOutputs(output_views, output_types, scope, provenance_, i, outputs) ==
    IF i > Len(output_views) \/ i > Len(output_types)
    THEN [exc |-> "", ret |-> outputs, scope |-> scope]
    ELSE LET one == CoerceOutput(provenance_, output_types[i][1], scope,
                                 output_types[i][2], output_views[i])
         IN IF one.exc # "" THEN [exc |-> one.exc, ret |-> None, scope |-> one.scope]
            ELSE CoerceOutputs(output_views, output_types, one.scope, provenance_,
                               i + 1, Append(outputs, one.output))

\* coerce_given_outputs: [exc, the list of outputs, the scope afterwards]
coerce_given_outputs(output_views, output_types, scope, provenance_) ==
    CoerceOutputs(output_views, output_types, scope, provenance_, 1, <<>>)

(***************************************************************************)
(* collate_inputs and decode_parameters.                                   *)
(***************************************************************************)
\* positional values named by signature_order, then updated by the keywords
collate_inputs(sig, args, kwargs) ==
    LET n == IF Len(args) < Len(sig.signature_order) THEN Len(args)
             ELSE Len(sig.signature_order)
    IN DictOf([i \in 1..n |-> <<sig.signature_order[i][1], args[i]>>] \o kwargs)

\* qiime2.core.type.util.parse_primitive of the text an interface received
parse_primitive(t, value) ==
    IF value.tag # "str" THEN Raise("TypeError:parse_primitive")
    ELSE IF t.name = "Str" THEN Ok(value)
    ELSE IF t.name = "Int" /\ \E n \in 0..9 : Digits[n + 1] = value.str
    THEN Ok(IntVal(CHOOSE n \in 0..9 : Digits[n + 1] = value.str))
    ELSE Raise("ValueError:parse_primitive")

\* decode_parameters: the loop is over the declared parameters
decode_parameters(sig, kwargs) ==
    LET decoded == Collect([i \in DOMAIN sig.parameters |->
            LET key == sig.parameters[i][1]
                spec == sig.parameters[i][2]
            IN IF ~HasKey(kwargs, key) THEN Raise("KeyError:" \o key)
               ELSE IF has_default(spec) /\ spec.default = None
                       /\ Get(kwargs, key) = None
               THEN Ok(None)
               ELSE parse_primitive(spec.qiime_type, Get(kwargs, key))])
    IN IF decoded.exc # "" THEN decoded
       ELSE Ok([i \in DOMAIN sig.parameters |->
                   <<sig.parameters[i][1], decoded.ret[i]>>])

(***************************************************************************)
(* Concurrent executions of one action.  Each call runs the call-time      *)
(* operations in the order of the data flow, on the shared signature and   *)
(* with its own provenance capture; the calls interleave between the       *)
(* operations and between the iterations of the transformation loop.       *)
(***************************************************************************)
\* the number of concurrent calls
MaxCalls == 2
CallIds == 1..MaxCalls

Idle ==
    [pc |-> "idle", at |-> "", kwargs |-> <<>>, callable_args |-> <<>>,
     raw |-> <<>>, idx |-> 0, outputs |-> <<>>, views |-> <<>>, exc |-> "",
     ret |-> None]

\* def f([ctx,] a, b) with a as input and the Int parameter b
InvokeRegistrations ==
    {Request("MethodSignature", ShapedCallable("MethodSignature", v, int),
             <<<<"a", ta>>>>, <<<<"b", QInt>>>>, PyDict(<<<<"o", to>>>>),
             <<>>, <<>>, <<>>) :
        v \in {list}, ta \in {IntSequence1, List(IntSequence1)},
        to \in {IntSequence1}}
    \cup {Request("MethodSignature", ShapedCallable("MethodSignature", dict, int),
                  <<<<"a", Collection(IntSequence1)>>>>, <<<<"b", QInt>>>>,
                  PyDict(<<<<"o", IntSequence1>>>>), <<>>, <<>>, <<>>),
          Request("MethodSignature", ShapedCallable("MethodSignature", list, int),
                  <<<<"a", T>>>>, <<<<"b", QInt>>>>,
                  PyDict(<<<<"o", T>>>>), <<>>, <<>>, <<>>),
          Request("PipelineSignature",
                  ShapedCallable("PipelineSignature", empty, empty),
                  <<<<"a", IntSequence1>>>>, <<<<"b", QInt>>>>,
                  PyDict(<<<<"o", IntSequence1>>>>), <<>>, <<>>, <<>>)}

B1 == BrokenArtifact(IntSequence1)
\* the values a caller gives for input a
InvokeValues == {A1, B1, PyList(<<A1, A1>>), PyList(<<A1, B1>>)}
\* the views the callable hands back for output o
ProducedViews == {<<PyList(<<>>)>>, <<IntVal(1)>>}

InitInvoke ==
    /\ req \in InvokeRegistrations
    /\ pc = "built"
    /\ exc = ""
    /\ self = __init__(req).self
    /\ op = NoCall
    /\ calls = [c \in CallIds |-> Idle]
    /\ provenance = [c \in CallIds |-> <<>>]
    /\ invocations = <<>>

\* the call moves on to `next`, or ends failed in the operation it was in
Advance(c, result, next, at) ==
    IF result.exc # ""
    THEN [calls EXCEPT ![c] = [@ EXCEPT !.pc = "failed", !.at = at,
                                        !.exc = result.exc]]
    ELSE [calls EXCEPT ![c] = next]

\* the interface decodes the text of parameter b; call c gives b = c
Decode(c) ==
    /\ calls[c].pc = "idle"
    /\ \E text \in {StrVal(str(c)), StrVal("x")} :
          LET r == decode_parameters(self, <<<<"b", text>>>>)
          IN calls' = Advance(c, r, [calls[c] EXCEPT !.pc = "decoded",
                                                    !.kwargs = r.ret],
                              "decode_parameters")
    /\ UNCHANGED <<req, pc, exc, self, op, provenance, invocations>>

\* input a arrives by position or by keyword
Collate(c) ==
    /\ calls[c].pc = "decoded"
    /\ \E a \in InvokeValues, positional \in BOOLEAN :
          LET args == IF positional THEN <<a>> ELSE <<>>
              kwargs == (IF positional THEN <<>> ELSE <<<<"a", a>>>>)
                            \o calls[c].kwargs
          IN calls' = [calls EXCEPT ![c] =
                         [@ EXCEPT !.pc = "collated",
                                   !.kwargs = collate_inputs(self, args, kwargs)]]
    /\ UNCHANGED <<req, pc, exc, self, op, provenance, invocations>>

Coerce(c) ==
    /\ calls[c].pc = "collated"
    /\ calls' = [calls EXCEPT ![c] =
                    [@ EXCEPT !.pc = "coerced",
                              !.callable_args =
                                  coerce_user_input(self, calls[c].kwargs)]]
    /\ UNCHANGED <<req, pc, exc, self, op, provenance, invocations>>

Check(c) ==
    /\ calls[c].pc = "coerced"
    /\ calls' = Advance(c, [exc |-> check_types(self, calls[c].callable_args)],
                        [calls[c] EXCEPT !.pc = "checked"], "check_types")
    /\ UNCHANGED <<req, pc, exc, self, op, provenance, invocations>>

\* solve_output keeping the solved outputs on the signature
Solve_StoresOutputs(c) ==
    /\ calls[c].pc = "checked"
    /\ LET r == solve_output(self, calls[c].callable_args)
       IN /\ calls' = Advance(c, r, [calls[c] EXCEPT !.pc = "transforming",
                                                      !.outputs = r.ret,
                                                      !.raw = calls[c].callable_args,
                                                      !.idx = 1],
                              "solve_output")
          /\ self' = IF r.exc = "" THEN [self EXCEPT !.outputs = r.ret] ELSE self
    /\ UNCHANGED <<req, pc, exc, op, provenance, invocations>>

\* solve_output; the call then enters the transformation step with the
\* callable arguments it has
Solve(c) ==
    /\ calls[c].pc = "checked"
    /\ LET r == solve_output(self, calls[c].callable_args)
       IN calls' = Advance(c, r, [calls[c] EXCEPT !.pc = "transforming",
                                                   !.outputs = r.ret,
                                                   !.raw = calls[c].callable_args,
                                                   !.idx = 1],
                           "solve_output")
    /\ UNCHANGED <<req, pc, exc, self, op, provenance, invocations>>

\* the transformation loop writing every call's records to the first capture
Transform_SharedProvenance(c) ==
    /\ calls[c].pc = "transforming"
    /\ \E early \in BOOLEAN :
          LET r == TransformEntry(self, provenance[1], calls[c].callable_args,
                                  calls[c].idx, early)
              last == calls[c].idx = Len(self.signature_order)
          IN /\ calls' = Advance(c, r,
                            [calls[c] EXCEPT
                                !.callable_args = r.callable_args,
                                !.idx = @ + 1,
                                !.pc = IF last THEN "transformed" ELSE @,
                                !.ret = IF last THEN r.callable_args ELSE @],
                            "transforming")
             /\ provenance' = [provenance EXCEPT ![1] = r.provenance]
    /\ UNCHANGED <<req, pc, exc, self, op, invocations>>

\* one iteration of the loop of transform_and_add_callable_args_to_prov; the
\* step returns the callable arguments after the last one
Transform(c) ==
    /\ calls[c].pc = "transforming"
    /\ \E early \in BOOLEAN :
          LET r == TransformEntry(self, provenance[c], calls[c].callable_args,
                                  calls[c].idx, early)
              last == calls[c].idx = Len(self.signature_order)
          IN /\ calls' = Advance(c, r,
                            [calls[c] EXCEPT
                                !.callable_args = r.callable_args,
                                !.idx = @ + 1,
                                !.pc = IF last THEN "transformed" ELSE @,
                                !.ret = IF last THEN r.callable_args ELSE @],
                            "transforming")
             /\ provenance' = [provenance EXCEPT ![c] = r.provenance]
    /\ UNCHANGED <<req, pc, exc, self, op, invocations>>

\* the underlying callable runs on the transformed arguments
RunCallable(c) ==
    /\ calls[c].pc = "transformed"
    /\ \E views \in ProducedViews :
          calls' = [calls EXCEPT ![c] = [@ EXCEPT !.pc = "ran", !.views = views]]
    /\ UNCHANGED <<req, pc, exc, self, op, provenance, invocations>>

Materialize(c) ==
    /\ calls[c].pc = "ran"
    /\ LET r == coerce_given_outputs(calls[c].views, calls[c].outputs, <<>>,
                                     provenance[c])
       IN calls' = Advance(c, r, [calls[c] EXCEPT !.pc = "done", !.ret = r.ret],
                           "coerce_given_outputs")
    /\ UNCHANGED <<req, pc, exc, self, op, provenance, invocations>>

\* the caller takes the results or the exception; the next call of this
\* worker gets a new provenance capture
Finish(c) ==
    /\ calls[c].pc \in {"done", "failed"}
    /\ calls' = [calls EXCEPT ![c] = Idle]
    /\ provenance' = [provenance EXCEPT ![c] = <<>>]
    /\ UNCHANGED <<req, pc, exc, self, op, invocations>>

NextInvoke ==
    \E c \in CallIds :
        \/ Decode(c) \/ Collate(c) \/ Coerce(c) \/ Check(c) \/ Solve(c)
        \/ Transform(c) \/ RunCallable(c) \/ Materialize(c) \/ Finish(c)

SpecInvoke == InitInvoke /\ [][NextInvoke]_vars

(***************************************************************************)
(* Properties of the transformation step and of concurrent calls.          *)
(***************************************************************************)
\* the transformation step of call c has returned
StepReturned(c) ==
    \/ calls[c].pc \in {"transformed", "ran", "done"}
    \/ calls[c].pc = "failed" /\ calls[c].at = "coerce_given_outputs"
\* the transformation step of call c has raised
StepRaised(c) == calls[c].pc = "failed" /\ calls[c].at = "transforming"
\* the add_input / add_parameter record of entry e of signature_order for
\* the arguments the step of call c was handed
ArgumentRecord(c, e) ==
    IF HasKey(self.inputs, e[1])
    THEN [record |-> "input", name |-> e[1], value |-> Get(calls[c].raw, e[1])]
    ELSE [record |-> "parameter", name |-> e[1], type |-> e[2].qiime_type,
          value |-> Get(calls[c].raw, e[1])]

\* C12: when the step has returned, the add_input and add_parameter records
\* of the call's provenance are, in signature_order, exactly one per input
\* (with the raw value) and one per parameter (name, declared type, value);
\* at all times a transformation record of an input comes after the
\* add_input record of that input with its raw value.
C12_ProvenanceRecordsInOrder ==
    \A c \in DOMAIN calls :
        LET prov == provenance[c]
            args == SelectSeq(prov, LAMBDA r : r.record \in {"input", "parameter"})
        IN /\ StepReturned(c) =>
                 args = [i \in DOMAIN self.signature_order |->
                            ArgumentRecord(c, self.signature_order[i])]
           /\ \A k \in DOMAIN prov :
                 prov[k].record = "transformation" =>
                     \E j \in 1..(k - 1) :
                         prov[j] = [record |-> "input", name |-> prov[k].name,
                                    value |-> Get(calls[c].raw, prov[k].name)]

C12_Witness ==
    \E c \in DOMAIN calls :
        /\ calls[c].pc = "transformed"
        /\ provenance[c] =
              <<[record |-> "input", name |-> "a", value |-> PyList(<<A1, A1>>)],
                Transformation("a", A1, list), Transformation("a", A1, list),
                [record |-> "parameter", name |-> "b", type |-> QInt,
                 value |-> IntVal(c)]>>

\* value is, or is a member of, what the step handed back for an input
Materialized(value, handed) ==
    \/ handed = value
    \/ /\ handed.tag = "list"
       /\ \E i \in DOMAIN handed.items : handed.items[i] = value
    \/ /\ handed.tag = "ResultCollection"
       /\ \E i \in DOMAIN handed.items : handed.items[i][2] = value

\* C13: in every execution of the step, also one in which a _view raises,
\* each transformation event in the provenance has its view in the
\* arguments the step hands back.
C13_EventsHaveValues ==
    \A c \in DOMAIN calls :
        (StepReturned(c) \/ StepRaised(c)) =>
            \A k \in DOMAIN provenance[c] :
                LET r == provenance[c][k]
                IN r.record = "transformation" =>
                      /\ StepReturned(c)
                      /\ Materialized(View(r.to, r.from),
                                      Get(calls[c].callable_args, r.name))

\* every record of the provenance of call c is about an argument of call c
OwnRecords(c) ==
    \A k \in DOMAIN provenance[c] :
        LET r == provenance[c][k]
        IN /\ HasKey(calls[c].raw, r.name)
           /\ IF r.record = "transformation"
              THEN Materialized(r.from, Get(calls[c].raw, r.name))
              ELSE r.value = Get(calls[c].raw, r.name)
\* the number of artifacts the step transforms for an argument value
Members(value) ==
    IF value.tag \in {"list", "ResultCollection"} THEN Len(value.items) ELSE 1
\* the provenance of call c holds every record of the call
AllRecords(c) ==
    LET so == self.signature_order
        events(i) == IF HasKey(self.inputs, so[i][1]) /\ has_view_type(so[i][2])
                     THEN Members(Get(calls[c].raw, so[i][1])) ELSE 0
        RECURSIVE Sum(_)
        Sum(i) == IF i = 0 THEN 0 ELSE Sum(i - 1) + 1 + events(i)
    IN Len(provenance[c]) = Sum(Len(so))

\* C14: with several calls running concurrently, each on its own provenance,
\* a provenance changes only in a step its own call takes inside
\* transform_and_add_callable_args_to_prov (or when the call is over and the
\* capture is replaced); once the step has returned, hence before the
\* callable runs, the provenance holds every input, parameter and
\* transformation record of the call, and it never holds a record of
\* another call.
C14_RecordsWrittenSynchronously ==
    /\ [](\A c \in DOMAIN calls :
             /\ OwnRecords(c)
             /\ StepReturned(c) => AllRecords(c))
    /\ [][\A c \in DOMAIN calls :
             provenance'[c] # provenance[c] =>
                 \/ /\ calls[c].pc = "transforming"
                    /\ calls'[c] # calls[c]
                 \/ /\ calls[c].pc \in {"done", "failed"}
                    /\ calls'[c] = Idle
                    /\ provenance'[c] = <<>>]_vars

C14_Witness ==
    /\ DOMAIN calls = CallIds
    /\ calls[1].pc = "transforming" /\ calls[1].idx = 2
    /\ Len(provenance[1]) = 3
    /\ calls[2].pc = "ran"
    /\ Len(provenance[2]) = 4
    /\ provenance[2][4].value = IntVal(2)

\* C15: no step of any call, whatever the interleaving, changes the inputs,
\* parameters, outputs or signature_order of the built signature.
C15_SignatureReadOnly ==
    [][/\ self'.inputs = self.inputs
       /\ self'.parameters = self.parameters
       /\ self'.outputs = self.outputs
       /\ self'.signature_order = self.signature_order]_vars

C15_Witness ==
    /\ DOMAIN calls = CallIds
    /\ calls[1].pc = "done"
    /\ calls[2].pc = "transforming"
    /\ select_variables(self.outputs[1][2].qiime_type) # <<>>
    /\ calls[1].outputs # self.outputs
    /\ self = __init__(req).self

(***************************************************************************)
(* coerce_given_outputs on the views a Method's callable produced.         *)
(***************************************************************************)
\* def f() -> ret, with the declared outputs
OutputRegistrations ==
    {Request("MethodSignature", [parameters |-> <<>>, ret |-> o.ret], <<>>, <<>>,
             PyList(o.outputs), <<>>, <<>>, <<>>) :
        o \in {[outputs |-> <<<<"output", Collection(SingleInt)>>>>, ret |-> int],
               [outputs |-> <<<<"output", SingleInt>>>>, ret |-> int],
               [outputs |-> <<<<"output", IntSequence1>>>>, ret |-> list],
               [outputs |-> <<<<"output", List(SingleInt)>>>>, ret |-> list],
               [outputs |-> <<<<"left", SingleInt>>,
                              <<"right", Collection(SingleInt)>>>>,
                ret |-> Tuple(<<int, int>>)]}}

\* the members of a produced collection
ViewMembers == {IntVal(1), IntVal(2)}
\* the keys a produced dict may carry
ViewKeys == {StrVal("0"), StrVal("1"), StrVal("x"), IntVal(1)}
\* the views a callable may hand back for one output
OutputViewValues ==
    {IntVal(1), BoolVal(TRUE)}
    \cup UNION {{PyList(items) : items \in [1..n -> ViewMembers]} : n \in 0..MaxLen}
    \cup UNION {{PyDict([i \in 1..n |-> <<ks[i], IntVal(i)>>]) :
                    ks \in {k \in [1..n -> ViewKeys] :
                               \A i, j \in 1..n : i # j => k[i] # k[j]}} :
                n \in 1..2}
    \cup {ResultCollection(<<<<"x", IntVal(1)>>, <<"0", IntVal(2)>>>>)}

InitOutputs ==
    /\ req \in OutputRegistrations
    /\ pc = "built"
    /\ exc = ""
    /\ self = __init__(req).self
    /\ op = NoCall
    /\ calls = <<>>
    /\ provenance = <<>>
    /\ invocations = <<>>

\* the call made, its outcome and the calls the scope received
CoerceGivenOutputs ==
    /\ pc = "built"
    /\ op = NoCall
    /\ \E n \in 0..2 : \E output_views \in [1..n -> OutputViewValues] :
          LET r == coerce_given_outputs(output_views, self.outputs, <<>>, <<>>)
          IN op' = [tag |-> "Call", name |-> "coerce_given_outputs",
                    args |-> output_views, exc |-> r.exc, ret |-> r.ret,
                    scope |-> r.scope]
    /\ UNCHANGED <<req, pc, exc, self, calls, provenance, invocations>>

NextOutputs == CoerceGivenOutputs \/ Return

SpecOutputs == InitOutputs /\ [][NextOutputs]_vars

\* the produced views paired with a declared output by the zip
Paired == {i \in DOMAIN self.outputs : i <= Len(op.args)}
\* x is one artifact wrapping the member view, of the collection's element type
Wraps(x, view, spec) ==
    /\ x.tag = "Artifact"
    /\ x.view = view
    /\ x.type = spec.qiime_type.fields[1]
\* the text of the keys of a produced keyed view, in the view's order
OwnKeys(view) ==
    IF view.tag = "ResultCollection" THEN Keys(view.items)
    ELSE [i \in DOMAIN view.items |->
             IF view.items[i][1].tag = "str" THEN view.items[i][1].str
             ELSE Digits[view.items[i][1].int + 1]]
Distinct(seq) == \A i, j \in DOMAIN seq : i # j => seq[i] # seq[j]

CreatedFor(n) ==
    {k \in DOMAIN op.scope :
        /\ op.scope[k].event = "_from_view"
        /\ op.scope[k].ref.provenance.fork = n}

\* C17: for an output that is not a Collection, coerce_given_outputs raises
\* whenever type(view) is not the declared view type, a subtype included,
\* and then constructs no artifact for that output; when the call returns,
\* exactly one artifact was constructed for the output, from its view.
C17_ExactViewType ==
    Called("coerce_given_outputs") =>
        \A i \in Paired :
            LET name == self.outputs[i][1]
                spec == self.outputs[i][2]
                view == op.args[i]
            IN spec.qiime_type.name # "Collection" =>
                 /\ TypeOf(view) # spec.view_type =>
                       (op.exc # "" /\ CreatedFor(name) = {})
                 /\ op.exc = "" =>
                       /\ TypeOf(view) = spec.view_type
                       /\ Cardinality(CreatedFor(name)) = 1
                       /\ op.ret[i].tag = "Artifact"
                       /\ op.ret[i].view = view

C17_Witness ==
    /\ Called("coerce_given_outputs")
    /\ self.outputs[1][2].qiime_type = SingleInt
    /\ self.outputs[1][2].view_type = int
    /\ op.args = <<BoolVal(TRUE)>>
    /\ op.exc = "TypeError:output_view_type"
    /\ op.scope = <<>>

(***************************************************************************)
(* HashableInvocation.  The arguments are a python list of single-key      *)
(* dicts {name: value}.  In the canonical form a python tuple is           *)
(* Tuple(items) and a str is StrVal(text).                                 *)
(***************************************************************************)
\* an artifact with its uuid and the data it holds
StoredArtifact(uuid, data) ==
    [tag |-> "Artifact", type |-> IntSequence1, uuid |-> uuid, data |-> data]
\* a Metadata object (python identity id) and the content it would save
MetadataOf(id, content) == [tag |-> "Metadata", id |-> id, content |-> content]
\* qiime2.core.archive.provenance.MetadataInfo
MetadataInfo(md5sum_hash) == [tag |-> "MetadataInfo", md5sum_hash |-> md5sum_hash]
\* qiime2.core.util.md5sum of the file a Metadata with this content saves
md5sum(content) == "md5-" \o content

\* _unify_dict: one dict from a list of dicts, later keys overwriting
RECURSIVE _unify_dict(_)
_unify_dict(collection) ==
    IF collection = <<>> THEN <<>>
    ELSE LET n == Len(collection)
             elem == collection[n].items
             RECURSIVE PutAll(_, _)
             PutAll(d, pairs) ==
                 IF pairs = <<>> THEN d
                 ELSE PutAll(Put(d, pairs[1][1], pairs[1][2]), Tail(pairs))
         IN PutAll(_unify_dict(SubSeq(collection, 1, n - 1)), elem)

\* _unify_dicts: the arguments list after the loop (it is changed in place)
_unify_dicts(arguments) ==
    [idx \in DOMAIN arguments |->
        LET name == arguments[idx].items[1][1]
            value == arguments[idx].items[1][2]
        IN IF value.tag = "list"
              /\ \A i \in DOMAIN value.items : value.items[i].tag = "dict"
           THEN PyDict(<<<<name, PyDict(_unify_dict(value.items))>>>>)
           ELSE arguments[idx]]

\* _make_hashable reducing an artifact to a checksum of its data
RECURSIVE _make_hashable_ArtifactByContent(_)
_make_hashable_ArtifactByContent(collection) ==
    IF collection.tag \in {"dict", "ResultCollection"}
    THEN Tuple([i \in DOMAIN collection.items |->
                   Tuple(<<StrVal(collection.items[i][1]),
                           _make_hashable_ArtifactByContent(collection.items[i][2])>>)])
    ELSE IF collection.tag = "list"
    THEN Tuple([i \in DOMAIN collection.items |->
                   _make_hashable_ArtifactByContent(collection.items[i])])
    ELSE IF collection.tag = "Artifact" THEN StrVal(md5sum(collection.data))
    ELSE IF collection.tag = "Metadata" THEN StrVal(md5sum(collection.content))
    ELSE IF collection.tag = "MetadataInfo" THEN StrVal(collection.md5sum_hash)
    ELSE collection

RECURSIVE _make_hashable(_)
_make_hashable(collection) ==
    IF collection.tag \in {"dict", "ResultCollection"}
    THEN Tuple([i \in DOMAIN collection.items |->
                   Tuple(<<StrVal(collection.items[i][1]),
                           _make_hashable(collection.items[i][2])>>)])
    ELSE IF collection.tag = "list"
    THEN Tuple([i \in DOMAIN collection.items |->
                   _make_hashable(collection.items[i])])
    ELSE IF collection.tag = "Artifact" THEN StrVal(collection.uuid)
    ELSE IF collection.tag = "Metadata" THEN StrVal(md5sum(collection.content))
    ELSE IF collection.tag = "MetadataInfo" THEN StrVal(collection.md5sum_hash)
    ELSE collection

\* HashableInvocation.__init__ without _unify_dicts
HashableInvocation_NotUnified(plugin_action, arguments) ==
    [plugin_action |-> plugin_action,
     arguments |-> _make_hashable(PyList(arguments)),
     given |-> arguments, caller |-> arguments]

\* HashableInvocation.__init__: the object's two attributes, with the
\* caller's list as it was given and as the constructor leaves it
HashableInvocation(plugin_action, arguments) ==
    LET unified_arguments == _unify_dicts(arguments)
    IN [plugin_action |-> plugin_action,
        arguments |-> _make_hashable(PyList(unified_arguments)),
        given |-> arguments, caller |-> unified_arguments]

\* __eq__ comparing the arguments only
__eq___IgnoresAction(x, other) == x.arguments = other.arguments

__eq__(x, other) ==
    x.plugin_action = other.plugin_action /\ x.arguments = other.arguments

\* the texts hashed, for the built-in hash of a str
StringTable ==
    <<"a", "b", "ints", "md", "x", "n", "m", "u1", "u2", "md5-c1", "md5-c2",
      "plugin:first", "plugin:second">>
\* the built-in hash of a hashable value, 16 bits wide
RECURSIVE hash(_)
hash(x) ==
    CASE x.tag = "int" -> x.int % 65536
      [] x.tag = "str" -> CHOOSE i \in DOMAIN StringTable : StringTable[i] = x.str
      [] x.tag = "tuple" ->
            LET RECURSIVE Mix(_)
                Mix(n) == IF n = 0 THEN 7
                          ELSE (31 * Mix(n - 1) + hash(x.items[n])) % 65536
            IN Mix(Len(x.items))

__hash__(x) == hash(Tuple(<<StrVal(x.plugin_action), x.arguments>>))

\* the number of invocations built and compared
MaxInvocations == 3

U1 == StoredArtifact("u1", "d1")
U2 == StoredArtifact("u2", "d1")
\* the argument lists the invocations are built from
ArgumentLists ==
    {<<PyDict(<<<<"ints", v>>>>)>> :
        v \in {PyList(<<PyDict(<<<<"a", U1>>>>), PyDict(<<<<"b", U2>>>>)>>),
               PyDict(<<<<"a", U1>>, <<"b", U2>>>>),
               PyDict(<<<<"b", U2>>, <<"a", U1>>>>),
               ResultCollection(<<<<"a", U1>>, <<"b", U2>>>>),
               PyList(<<U1, U2>>)}}
    \cup {<<PyDict(<<<<"md", v>>>>)>> :
             v \in {MetadataOf(1, "c1"), MetadataOf(2, "c1"), MetadataOf(3, "c2"),
                    MetadataInfo("md5-c1")}}
    \cup {<<PyDict(<<<<"x", v>>>>)>> : v \in {U1, U2}}
    \cup {<<PyDict(<<<<"n", IntVal(1)>>>>),
            PyDict(<<<<"m", PyList(<<PyDict(<<<<"a", IntVal(1)>>>>),
                                     PyDict(<<<<"b", IntVal(2)>>>>)>>)>>>>)>>,
          <<PyDict(<<<<"n", IntVal(1)>>>>),
            PyDict(<<<<"m", PyDict(<<<<"a", IntVal(1)>>, <<"b", IntVal(2)>>>>)>>>>)>>}
\* the invocations explored: every argument list for the first action, one
\* of them also for the second
Invocable ==
    {<<"plugin:first", arguments>> : arguments \in ArgumentLists}
    \cup {<<"plugin:second", <<PyDict(<<<<"md", MetadataOf(1, "c1")>>>>)>>>>}

InitHash ==
    /\ req = NoReq
    /\ pc = "unregistered"
    /\ exc = ""
    /\ self = NoSig
    /\ op = NoCall
    /\ calls = <<>>
    /\ provenance = <<>>
    /\ invocations = <<>>

Construct ==
    /\ op = NoCall
    /\ Len(invocations) < MaxInvocations
    /\ \E i \in Invocable :
          invocations' = Append(invocations, HashableInvocation(i[1], i[2]))
    /\ UNCHANGED <<req, pc, exc, self, op, calls, provenance>>

Eq ==
    /\ op = NoCall
    /\ \E i, j \in DOMAIN invocations :
          op' = Call("__eq__", <<i, j>>,
                     Ok(BoolVal(__eq__(invocations[i], invocations[j]))))
    /\ UNCHANGED <<req, pc, exc, self, calls, provenance, invocations>>

Hash ==
    /\ op = NoCall
    /\ \E i \in DOMAIN invocations :
          op' = Call("__hash__", <<i>>, Ok(IntVal(__hash__(invocations[i]))))
    /\ UNCHANGED <<req, pc, exc, self, calls, provenance, invocations>>

NextHash == Construct \/ Eq \/ Hash \/ Return

SpecHash == InitHash /\ [][NextHash]_vars

(***************************************************************************)
(* Claims about HashableInvocation.                                        *)
(***************************************************************************)
\* the first (only) item of argument k of the list an invocation was given
Argument(x, k) == x.given[k].items[1]
\* a value in the provenance-replay encoding: a list of single-key dicts
Replayed(v) ==
    /\ v.tag = "list"
    /\ v.items # <<>>
    /\ \A i \in DOMAIN v.items :
          v.items[i].tag = "dict" /\ Len(v.items[i].items) = 1
\* the single mapping obtained by merging a list of single-key dicts
Merged(v) == PyDict(DictOf([i \in DOMAIN v.items |-> v.items[i].items[1]]))
\* x and y are the same call, y holding the merged mapping wherever x holds
\* the replay encoding, and x holds it somewhere
ReplayOf(x, y) ==
    /\ x.plugin_action = y.plugin_action
    /\ Len(x.given) = Len(y.given)
    /\ \E k \in DOMAIN x.given : Replayed(Argument(x, k)[2])
    /\ \A k \in DOMAIN x.given :
          /\ Argument(x, k)[1] = Argument(y, k)[1]
          /\ IF Replayed(Argument(x, k)[2])
             THEN Argument(y, k)[2] = Merged(Argument(x, k)[2])
             ELSE Argument(y, k)[2] = Argument(x, k)[2]

\* C18: an invocation whose argument is a list of single-key mappings and
\* one of the same action whose same-named argument is the merged mapping
\* have equal canonical arguments, compare equal and hash equally
C18_ReplayEncodingUnified ==
    \A i, j \in DOMAIN invocations :
        ReplayOf(invocations[i], invocations[j]) =>
            /\ invocations[i].arguments = invocations[j].arguments
            /\ __eq__(invocations[i], invocations[j])
            /\ __eq__(invocations[j], invocations[i])
            /\ __hash__(invocations[i]) = __hash__(invocations[j])
            /\ Called("__eq__") /\ op.args \in {<<i, j>>, <<j, i>>} =>
                   op.ret = BoolVal(TRUE)

C18_Witness ==
    /\ Len(invocations) >= 2
    /\ ReplayOf(invocations[1], invocations[2])
    /\ Len(invocations[1].given) = 2
    /\ Called("__eq__") /\ op.args = <<1, 2>> /\ op.ret = BoolVal(TRUE)

\* C19: two invocations are equal exactly when their action identities and
\* their canonical argument sequences are equal; equality is reflexive,
\* symmetric and transitive; equal invocations have equal hashes
C19_EqualityAndHash ==
    \A i, j, k \in DOMAIN invocations :
        LET x == invocations[i]
            y == invocations[j]
            z == invocations[k]
        IN /\ __eq__(x, y) <=>
                 (x.plugin_action = y.plugin_action /\ x.arguments = y.arguments)
           /\ __eq__(x, x)
           /\ __eq__(x, y) => __eq__(y, x)
           /\ __eq__(x, y) /\ __eq__(y, z) => __eq__(x, z)
           /\ __eq__(x, y) => __hash__(x) = __hash__(y)
           /\ Called("__eq__") /\ op.args = <<i, j>> =>
                  op.ret = BoolVal(x.plugin_action = y.plugin_action
                                   /\ x.arguments = y.arguments)
           /\ Called("__hash__") /\ op.args = <<i>> /\ __eq__(x, y) =>
                  op.ret = IntVal(__hash__(y))

\* three invocations, the first two built from different lists and equal,
\* the third of another action with the arguments of the second
C19_Witness ==
    /\ Len(invocations) = 3
    /\ invocations[1].given # invocations[2].given
    /\ __eq__(invocations[1], invocations[2])
    /\ invocations[3].plugin_action # invocations[2].plugin_action
    /\ invocations[3].arguments = invocations[1].arguments
    /\ Called("__eq__") /\ op.args = <<1, 3>> /\ op.ret = BoolVal(FALSE)

\* x and y are the same call but for the one argument value
SameBut(x, y) ==
    /\ x.plugin_action = y.plugin_action
    /\ Len(x.given) = 1 /\ Len(y.given) = 1
    /\ Argument(x, 1)[1] = Argument(y, 1)[1]

\* C20: an artifact contributes only its uuid and a metadata object only
\* the checksum of its content: artifacts of different uuid and identical
\* content give different fingerprints; metadata of identical content, or a
\* metadata and a MetadataInfo carrying its checksum, give equal ones
C20_ArtifactByUuidMetadataByChecksum ==
    \A i, j \in DOMAIN invocations :
        LET x == invocations[i]
            y == invocations[j]
            a == Argument(x, 1)[2]
            b == Argument(y, 1)[2]
            name == StrVal(Argument(x, 1)[1])
        IN SameBut(x, y) =>
            /\ a.tag = "Artifact" =>
                  x.arguments = Tuple(<<Tuple(<<Tuple(<<name, StrVal(a.uuid)>>)>>)>>)
            /\ a.tag = "Metadata" =>
                  x.arguments =
                      Tuple(<<Tuple(<<Tuple(<<name, StrVal(md5sum(a.content))>>)>>)>>)
            /\ a.tag = "Artifact" /\ b.tag = "Artifact" /\ a.uuid # b.uuid =>
                  /\ x.arguments # y.arguments
                  /\ ~__eq__(x, y)
            /\ a.tag = "Metadata" /\ b.tag = "Metadata" /\ a.content = b.content =>
                  /\ x.arguments = y.arguments
                  /\ __eq__(x, y)
                  /\ __hash__(x) = __hash__(y)
            /\ a.tag = "Metadata" /\ b.tag = "MetadataInfo"
               /\ b.md5sum_hash = md5sum(a.content) =>
                  /\ x.arguments = y.arguments
                  /\ __eq__(x, y)
                  /\ __hash__(x) = __hash__(y)

\* two artifacts of one content and two uuids, then two metadata objects of
\* one content, have been fingerprinted
C20_Witness ==
    /\ Len(invocations) = 3
    /\ SameBut(invocations[1], invocations[2])
    /\ Argument(invocations[1], 1)[2] = U1
    /\ Argument(invocations[2], 1)[2] = U2
    /\ U1.data = U2.data
    /\ invocations[3].given = <<PyDict(<<<<"md", MetadataOf(2, "c1")>>>>)>>
    /\ Called("__eq__") /\ op.args = <<1, 2>> /\ op.ret = BoolVal(FALSE)

(***************************************************************************)
(* decode_parameters on a built signature.                                 *)
(***************************************************************************)
\* what an interface passes: texts (or None) for b and for a name z that no
\* signature declares, each given or not
DecodeKwargs ==
    {SelectSeq(<<<<"b", f.b>>, <<"z", f.z>>>>, LAMBDA e : e[2] # Missing) :
        f \in [b : {Missing, None, StrVal("1"), StrVal("x")},
               z : {Missing, None, StrVal("1")}]}

DecodeParameters ==
    /\ pc = "built"
    /\ op = NoCall
    /\ \E kwargs \in DecodeKwargs :
          op' = Call("decode_parameters", kwargs, decode_parameters(self, kwargs))
    /\ UNCHANGED <<req, pc, exc, self, calls, provenance, invocations>>

NextDecode == DecodeParameters \/ Return

SpecDecode == InitCall /\ [][NextDecode]_vars

\* C21: decode_parameters raises when it is passed a name that is not a
\* declared parameter of the signature
C21_UnknownParameterFails ==
    (Called("decode_parameters")
     /\ \E i \in DOMAIN op.args : ~HasKey(self.parameters, op.args[i][1])) =>
        op.exc # ""

(***************************************************************************)
(* _transform_and_add_input_to_prov on one input of a built signature,     *)
(* with a new provenance capture.                                          *)
(***************************************************************************)
\* the step that writes no add_input record for a None
TransformInput_NoneUnrecorded ==
    /\ pc = "built"
    /\ op = NoCall
    /\ \E i \in DOMAIN self.inputs, _input \in CallValues \cup {B1}, early \in BOOLEAN :
          LET name == self.inputs[i][1]
              r == _transform_and_add_input_to_prov(<<>>, name, self.inputs[i][2],
                                                    _input, early)
          IN /\ op' = Call("_transform_and_add_input_to_prov",
                           <<<<name, _input>>>>, r)
             /\ provenance' = IF _input = None THEN <<>> ELSE r.provenance
    /\ UNCHANGED <<req, pc, exc, self, calls, invocations>>

TransformInput ==
    /\ pc = "built"
    /\ op = NoCall
    /\ \E i \in DOMAIN self.inputs, _input \in CallValues \cup {B1}, early \in BOOLEAN :
          LET name == self.inputs[i][1]
              r == _transform_and_add_input_to_prov(<<>>, name, self.inputs[i][2],
                                                    _input, early)
          IN /\ op' = Call("_transform_and_add_input_to_prov",
                           <<<<name, _input>>>>, r)
             /\ provenance' = r.provenance
    /\ UNCHANGED <<req, pc, exc, self, calls, invocations>>

NextTransform == TransformInput \/ Return

SpecTransform == InitCall /\ [][NextTransform]_vars

\* C22: an input that is None, or whose spec has no view type, is handed
\* back unchanged; its add_input record is the only record written
C22_PassThroughRecordedOnly ==
    Called("_transform_and_add_input_to_prov") =>
        LET name == op.args[1][1]
            _input == op.args[1][2]
        IN (_input = None \/ ~has_view_type(Get(self.inputs, name))) =>
              /\ op.exc = ""
              /\ op.ret = _input
              /\ provenance = <<[record |-> "input", name |-> name,
                                 value |-> _input]>>

\* a None given to a Method input that has a view type
C22_Witness ==
    /\ Called("_transform_and_add_input_to_prov")
    /\ op.args[1][2] = None
    /\ has_view_type(Get(self.inputs, op.args[1][1]))
    /\ op.ret = None
    /\ Len(provenance) = 1

(***************************************************************************)
(* The order of the calls made for each output artifact.                   *)
(***************************************************************************)
\* the positions of the artifact constructions among the calls on the scope
Constructions == {k \in DOMAIN op.scope : op.scope[k].event = "_from_view"}
\* the names the provenance is forked at for the outputs from pair i on, in
\* the order of the loops: the output's name, or one member name per member
\* of the view of a Collection output
RECURSIVE ForkNames(_)
ForkNames(i) ==
    IF i \notin Paired THEN <<>>
    ELSE LET name == self.outputs[i][1]
             view == op.args[i]
             keys == IF view.tag = "list" THEN [m \in DOMAIN view.items |-> str(m - 1)]
                     ELSE OwnKeys(view)
         IN (IF self.outputs[i][2].qiime_type.name = "Collection"
             THEN [m \in DOMAIN keys |->
                      create_collection_name(name, keys[m], m - 1, Len(keys))]
             ELSE <<name>>) \o ForkNames(i + 1)

\* C23 as stated: every artifact constructed, the members of a Collection
\* output included, has as provenance the call's provenance forked at the
\* name of a declared output
C23_ForkedAtOutputName ==
    Called("coerce_given_outputs") =>
        \A k \in Constructions :
            op.scope[k].ref.provenance.fork \in Range(Keys(self.outputs))

\* C23 (amended): every artifact constructed has as provenance a fork of the
\* call's provenance, at the output's name for an output that is not a
\* Collection and at the member's collection name for a member of a
\* Collection output; the fork is registered with the scope right before the
\* construction and the artifact with the parent scope right after it
C23_ForkRegisterConstructRegister ==
    Called("coerce_given_outputs") =>
        /\ \A k \in DOMAIN op.scope :
              /\ op.scope[k].event = "_from_view" =>
                    /\ op.scope[k].ref.provenance.of = <<>>
                    /\ k > 1 /\ k < Len(op.scope)
                    /\ op.scope[k - 1] = [event |-> "add_reference",
                                          ref |-> op.scope[k].ref.provenance]
                    /\ op.scope[k + 1] = [event |-> "add_parent_reference",
                                          ref |-> op.scope[k].ref]
              /\ op.scope[k].event = "add_reference" =>
                    k < Len(op.scope) /\ op.scope[k + 1].event = "_from_view"
              /\ op.scope[k].event = "add_parent_reference" =>
                    k > 1 /\ op.scope[k - 1].event = "_from_view"
        /\ op.exc = "" =>
              /\ Len(op.scope) = 3 * Len(ForkNames(1))
              /\ \A n \in DOMAIN ForkNames(1) :
                    op.scope[3 * n - 1].ref.provenance.fork = ForkNames(1)[n]

\* a single output and a Collection output of two members were created
C23_Witness ==
    /\ Called("coerce_given_outputs")
    /\ op.exc = ""
    /\ Keys(self.outputs) = <<"left", "right">>
    /\ Len(op.args) = 2
    /\ op.args[2].tag = "dict"
    /\ Len(op.scope) = 9
    /\ op.scope[2].ref.provenance.fork = "left"
    /\ op.scope[5].ref.provenance.fork = "right:x:0:2"

\* the two values are keyed collections of one kind holding the same
\* key-to-value pairs
SamePairs(a, b) ==
    /\ a.tag \in {"dict", "ResultCollection"}
    /\ b.tag = a.tag
    /\ Range(a.items) = Range(b.items)

\* C24: two invocations of one action whose keyed-collection argument holds
\* the same key-to-value pairs, in whatever order they were inserted,
\* compare equal and hash equally
C24_InsertionOrderIrrelevant ==
    \A i, j \in DOMAIN invocations :
        LET x == invocations[i]
            y == invocations[j]
        IN (SameBut(x, y) /\ SamePairs(Argument(x, 1)[2], Argument(y, 1)[2])) =>
              /\ __eq__(x, y)
              /\ __hash__(x) = __hash__(y)

\* C25: constructing a HashableInvocation leaves the caller's argument list
\* as it was given
C25_CallerListUnchanged ==
    \A i \in DOMAIN invocations : invocations[i].caller = invocations[i].given

\* C26: coerce_given_outputs returns one result per declared output, and
\* raises when the number of produced views is not the number of declared
\* outputs
C26_OneResultPerDeclaredOutput ==
    Called("coerce_given_outputs") =>
        /\ op.exc = "" => Len(op.ret) = Len(self.outputs)
        /\ Len(op.args) # Len(self.outputs) => op.exc # ""

\* C27: for a Collection output whose produced view exposes keys, the keyed
\* result has as many entries as the view has members
C27_OneEntryPerMember ==
    (Called("coerce_given_outputs") /\ op.exc = "") =>
        \A i \in Paired :
            (/\ self.outputs[i][2].qiime_type.name = "Collection"
             /\ op.args[i].tag \in {"dict", "ResultCollection"}) =>
                Len(op.ret[i].items) = Len(op.args[i].items)

(***************************************************************************)
(* solve_output on built signatures whose outputs may carry descriptions.  *)
(***************************************************************************)
InitSolve ==
    /\ req \in {r \in RegistrationsByType :
                   r.cls # "VisualizerSignature" /\ __init__(r).exc = ""}
    /\ pc = "built"
    /\ exc = ""
    /\ self = __init__(req).self
    /\ op = NoCall
    /\ calls = <<>>
    /\ provenance = <<>>
    /\ invocations = <<>>

NextSolve == SolveOutput \/ Return

SpecSolve == InitSolve /\ [][NextSolve]_vars

\* C28: on the slow path solve_output returns a mapping with the declared
\* output names in the declared order, each spec keeping the declared
\* view_type, default and description with the solved type as qiime_type (the
\* declared type itself where it holds no variable); the declared outputs of
\* the signature stay as they were built
C28_SolvedSpecsKeepTheRest ==
    (Called("solve_output") /\ op.exc = "" /\ HasVariables(self)) =>
        /\ Keys(op.ret) = Keys(self.outputs)
        /\ \A i \in DOMAIN self.outputs :
              LET declared == self.outputs[i][2]
                  solved == op.ret[i][2]
              IN /\ solved = ParameterSpec(solved.qiime_type, declared.view_type,
                                           declared.default, declared.description)
                 /\ is_concrete(solved.qiime_type)
                 /\ select_variables(declared.qiime_type) = <<>> =>
                       solved.qiime_type = declared.qiime_type
        /\ self = __init__(req).self

\* an output declared T with a view type and a description, solved
C28_Witness ==
    /\ Called("solve_output")
    /\ op.exc = ""
    /\ req.output_descriptions = <<<<"o", "an output">>>>
    /\ Keys(self.outputs) = <<"o">>
    /\ self.outputs[1][2].qiime_type = T
    /\ self.outputs[1][2].view_type = list
    /\ self.outputs[1][2].description = "an output"
    /\ op.ret[1][2].qiime_type = IntSequence2
    /\ op.ret[1][2].description = "an output"

(***************************************************************************)
(* Claims about coerce_user_input as a whole.                              *)
(***************************************************************************)
\* the two python values are of one kind and equal
SameValue(x, y) == x.tag = y.tag /\ x = y

\* C29: coerce_user_input applied to its own result returns the same names
\* with the same values and container shapes
C29_CoerceIdempotent ==
    Called("coerce_user_input") =>
        LET again == coerce_user_input(self, op.ret)
        IN /\ Keys(again) = Keys(op.ret)
           /\ \A i \in DOMAIN op.ret : SameValue(again[i][2], op.ret[i][2])

\* a list given for a Collection input and a list given for a parameter of
\* view type dict were both reshaped
C29_Witness ==
    /\ Called("coerce_user_input")
    /\ Get(self.inputs, "a").qiime_type = Collection(IntSequence1)
    /\ Get(self.parameters, "b").view_type = dict
    /\ Keys(op.args) = <<"a", "b">>
    /\ Get(op.args, "a") = PyList(<<A1, A2>>)
    /\ Get(op.args, "b") = PyList(<<IntVal(1), IntVal(2)>>)
    /\ Get(op.ret, "a").tag = "ResultCollection"
    /\ Get(op.ret, "b").tag = "dict"

\* C30: the result of coerce_user_input holds exactly the given names that
\* signature_order declares, in signature order: a declared name not given
\* is absent, a given name not declared is dropped, and nothing is raised
C30_GivenDeclaredNamesInOrder ==
    Called("coerce_user_input") =>
        /\ op.exc = ""
        /\ Keys(op.ret) = SelectSeq(Keys(self.signature_order),
                                    LAMBDA n : HasKey(op.args, n))

\* z and b were given before a
C30_Witness ==
    /\ Called("coerce_user_input")
    /\ Keys(op.args) = <<"z", "b", "a">>
    /\ Keys(op.ret) = <<"a", "b">>

====
